---- MODULE Spec2Model ----
(***************************************************************************)
(* AURA decision firewall: the wallet-request interceptor, the risk        *)
(* indicator engine, the transaction parser / intent analyzer, the mock    *)
(* review of the application, the AuraDecisionLogger ledger contract and   *)
(* the DecisionLogger client that records decisions locally and on it.     *)
(***************************************************************************)
EXTENDS Integers, Sequences, FiniteSets, TLC

(***************************************************************************)
(* Bounds                                                                  *)
(***************************************************************************)
MaxReqs == 2      \* wallet requests issued by the dapp
MaxCalls == 2     \* invocations of approveTransaction / rejectTransaction
MaxMock == 2      \* decisions logged from the mock review
MaxLogs == 2      \* decisions stored in the ledger
MaxTime == 2      \* the latest block.timestamp, the deployment being at 1
MaxLogCalls == 2  \* calls of DecisionLogger.logDecision
MaxNow == 2       \* the latest value Date.now() returns, the first being 1

VARIABLES
  requests,            \* per call of the overridden window.ethereum.request
  pendingTransaction,  \* state.pendingTransaction (a request id or NoTx)
  isIntercepting,      \* state.isIntercepting
  isAnalyzing,         \* state.isAnalyzing
  calls,               \* per invocation of approveTransaction / rejectTransaction
  logged,              \* parameters handed to decisionLogger.logDecision, in order
  risk,                \* one call of analyzeRiskIndicators: arguments, position, indicators
  parse,               \* one run of parseTransaction and analyzeIntent
  mock,                \* the mock-transaction review of App: currentTransaction, address
  ledger,              \* storage of the AuraDecisionLogger contract
  chain,               \* block.timestamp and the last call made to the contract
  logger               \* the DecisionLogger singleton and its logDecision calls

ivars == <<requests, pendingTransaction, isIntercepting, isAnalyzing, calls, logged>>

rvars == <<risk>>

pvars == <<parse>>

avars == <<mock>>

lvars == <<ledger, chain>>

dvars == <<logger>>

vars == <<ivars, rvars, pvars, avars, lvars, dvars>>

(***************************************************************************)
(* Interceptor: src/hooks/useTransactionInterceptor.ts                     *)
(***************************************************************************)
ReqIds == 1..MaxReqs
CallIds == 1..MaxCalls
NoTx == 0

\* args of the requests a dapp makes; params is undefined, [] or [transaction]
RequestArgs ==
  {[method |-> "eth_sendTransaction", params |-> "tx"],
   [method |-> "eth_sendTransaction", params |-> "empty"],
   [method |-> "eth_sendTransaction", params |-> "undefined"],
   [method |-> "eth_accounts", params |-> "undefined"],
   [method |-> "eth_call", params |-> "tx"]}

\* severities of the context's riskIndicators, as analyzeRiskIndicators returns
\* them (it never returns an empty list)
SeverityLists == {<<"info">>, <<"warning", "info">>, <<"warning", "warning">>}

NoArgs == [method |-> "none", params |-> "none"]

IdleRequest ==
  [pc |-> "idle", args |-> NoArgs, riskIndicators |-> <<>>, settled |-> "none",
   forwarded |-> <<>>, reviewed |-> FALSE, analysisFailed |-> FALSE,
   loggingFailed |-> FALSE]

IdleCall == [pc |-> "idle", userChoice |-> "none", captured |-> NoTx]

\* a call that has returned (its closure is gone)
DoneCall == [pc |-> "done", userChoice |-> "none", captured |-> NoTx]

RECURSIVE CountWarnings(_)
CountWarnings(list) ==
  IF list = <<>> THEN 0
  ELSE (IF Head(list) = "warning" THEN 1 ELSE 0) + CountWarnings(Tail(list))

determineRiskLevel(riskIndicators) ==
  IF Len(riskIndicators) = 0 THEN "low"
  ELSE LET hasWarning == \E i \in 1..Len(riskIndicators) : riskIndicators[i] = "warning"
           warningCount == CountWarnings(riskIndicators)
       IN IF warningCount >= 2 THEN "high"
          ELSE IF hasWarning THEN "medium"
          ELSE "low"

InterceptorIdle ==
  /\ requests = [r \in ReqIds |-> IdleRequest]
  /\ pendingTransaction = NoTx
  /\ isIntercepting = FALSE
  /\ isAnalyzing = FALSE
  /\ calls = [c \in CallIds |-> IdleCall]
  /\ logged = <<>>

\* originalRequest.call(window.ethereum, args)
Forward(req) == [req EXCEPT !.forwarded = Append(@, req.args), !.pc = "done"]

\* window.ethereum.request(args) up to its first suspension: a request that is
\* not an eth_sendTransaction with a transaction goes to the wallet at once;
\* otherwise interceptTransaction starts analyzeTransaction, whose synchronous
\* part (parseTransaction, analyzeIntent) may throw.
Request(r, args, syncThrows) ==
  /\ requests[r].pc = "idle"
  /\ \A q \in ReqIds : q < r => requests[q].pc # "idle"
  /\ LET req == [requests[r] EXCEPT !.args = args]
     IN IF args.method = "eth_sendTransaction" /\ args.params = "tx"
        THEN IF syncThrows
             THEN \* analyzeTransaction: finally, then reject(error), then the catch
                  /\ requests' = [requests EXCEPT ![r] =
                                   Forward([req EXCEPT !.analysisFailed = TRUE,
                                                       !.settled = "error"])]
                  /\ isAnalyzing' = FALSE
             ELSE /\ requests' = [requests EXCEPT ![r] = [req EXCEPT !.pc = "analyzing"]]
                  /\ isAnalyzing' = TRUE
        ELSE /\ requests' = [requests EXCEPT ![r] = Forward(req)]
             /\ UNCHANGED isAnalyzing
  /\ UNCHANGED <<pendingTransaction, isIntercepting, calls, logged, rvars, pvars, avars, lvars, dvars>>

\* analyzeRiskIndicators has returned: the context is built and the review is shown
AnalysisDone(r, indicators) ==
  /\ requests[r].pc = "analyzing"
  /\ requests' = [requests EXCEPT ![r] = [@ EXCEPT !.pc = "waiting",
                                                   !.riskIndicators = indicators,
                                                   !.reviewed = TRUE]]
  /\ isAnalyzing' = FALSE
  /\ pendingTransaction' = r
  /\ isIntercepting' = TRUE
  /\ UNCHANGED <<calls, logged, rvars, pvars, avars, lvars, dvars>>

\* approveTransaction / rejectTransaction up to the eth_accounts request
Decide(c, userChoice) ==
  /\ calls[c].pc = "idle"
  /\ \A d \in CallIds : d < c => calls[d].pc # "idle"
  /\ pendingTransaction # NoTx
  /\ calls' = [calls EXCEPT ![c] = [pc |-> "accounts", userChoice |-> userChoice,
                                    captured |-> pendingTransaction]]
  /\ UNCHANGED <<requests, pendingTransaction, isIntercepting, isAnalyzing, logged, rvars, pvars, avars, lvars, dvars>>

approveTransaction(c) == Decide(c, "approved")

rejectTransaction(c) == Decide(c, "rejected")

\* state.pendingTransaction.resolve(choice); setState(pendingTransaction: null);
\* failed records that the try block before it threw
Settle(c, failed) ==
  /\ requests' = [requests EXCEPT ![calls[c].captured] =
                    [IF @.settled = "none"
                     THEN [@ EXCEPT !.settled = IF calls[c].userChoice = "approved"
                                                THEN "true" ELSE "false"]
                     ELSE @
                     EXCEPT !.loggingFailed = @ \/ failed]]
  /\ pendingTransaction' = NoTx
  /\ isIntercepting' = FALSE
  /\ calls' = [calls EXCEPT ![c] = DoneCall]

\* AccountsDone, but an error of the account lookup ends the handler
AccountsDone_throwEndsHandler(c, throws) ==
  /\ calls[c].pc = "accounts"
  /\ IF throws
     THEN /\ calls' = [calls EXCEPT ![c] = DoneCall]
          /\ UNCHANGED <<requests, pendingTransaction, isIntercepting, isAnalyzing, logged, rvars, pvars, avars, lvars, dvars>>
     ELSE /\ calls' = [calls EXCEPT ![c] = [@ EXCEPT !.pc = "logging"]]
          /\ logged' = Append(logged,
                        [transaction |-> calls[c].captured,
                         userChoice |-> calls[c].userChoice,
                         riskLevel |-> determineRiskLevel(
                                         requests[calls[c].captured].riskIndicators)])
          /\ UNCHANGED <<requests, pendingTransaction, isIntercepting, isAnalyzing, rvars, pvars, avars, lvars, dvars>>

\* the eth_accounts request returns: logDecision is called, or the lookup threw
\* and the catch leads straight to resolve
AccountsDone(c, throws) ==
  /\ calls[c].pc = "accounts"
  /\ IF throws
     THEN /\ Settle(c, TRUE)
          /\ UNCHANGED <<isAnalyzing, logged, rvars, pvars, avars, lvars, dvars>>
     ELSE /\ calls' = [calls EXCEPT ![c] = [@ EXCEPT !.pc = "logging"]]
          /\ logged' = Append(logged,
                        [transaction |-> calls[c].captured,
                         userChoice |-> calls[c].userChoice,
                         riskLevel |-> determineRiskLevel(
                                         requests[calls[c].captured].riskIndicators)])
          /\ UNCHANGED <<requests, pendingTransaction, isIntercepting, isAnalyzing, rvars, pvars, avars, lvars, dvars>>

\* decisionLogger.logDecision returned or threw (the error is only logged)
LogDone(c, throws) ==
  /\ calls[c].pc = "logging"
  /\ Settle(c, throws)
  /\ UNCHANGED <<isAnalyzing, logged, rvars, pvars, avars, lvars, dvars>>

\* Resume, but an approved transaction is dropped instead of passed on
Resume_withholdsApproved(r) ==
  /\ requests[r].pc = "waiting"
  /\ requests[r].settled \in {"true", "false"}
  /\ requests' = [requests EXCEPT ![r] =
       IF @.settled = "true" THEN [@ EXCEPT !.pc = "done"] ELSE Forward(@)]
  /\ UNCHANGED <<pendingTransaction, isIntercepting, isAnalyzing, calls, logged, rvars, pvars, avars, lvars, dvars>>

\* the request handler resumes after `await interceptTransaction(transaction)`
Resume(r) ==
  /\ requests[r].pc = "waiting"
  /\ requests[r].settled \in {"true", "false"}
  /\ requests' = [requests EXCEPT ![r] =
       IF @.settled = "true"
       THEN Forward(@)
       ELSE \* throw new Error('Transaction cancelled by user') inside the try:
            \* the catch below it falls back to the original request
            Forward(@)]
  /\ UNCHANGED <<pendingTransaction, isIntercepting, isAnalyzing, calls, logged, rvars, pvars, avars, lvars, dvars>>

(***************************************************************************)
(* Strings are sequences of one-character strings, so that length, slice,  *)
(* lower-casing and number parsing are computed as the code computes them. *)
(***************************************************************************)
None == <<>>          \* an absent (undefined) optional value
Some(x) == <<x>>
Present(opt) == opt # <<>>
Get(opt) == opt[1]

HexVal(c) ==
  CASE c = "0" -> 0 [] c = "1" -> 1 [] c = "2" -> 2 [] c = "3" -> 3 [] c = "4" -> 4
    [] c = "5" -> 5 [] c = "6" -> 6 [] c = "7" -> 7 [] c = "8" -> 8 [] c = "9" -> 9
    [] c \in {"a", "A"} -> 10 [] c \in {"b", "B"} -> 11 [] c \in {"c", "C"} -> 12
    [] c \in {"d", "D"} -> 13 [] c \in {"e", "E"} -> 14 [] c \in {"f", "F"} -> 15
    [] OTHER -> 0 - 1

IsDigit(c, radix) == HexVal(c) \in 0..(radix - 1)

LowerChar(c) ==
  CASE c = "A" -> "a" [] c = "B" -> "b" [] c = "C" -> "c" [] c = "D" -> "d"
    [] c = "E" -> "e" [] c = "F" -> "f" [] c = "X" -> "x" [] OTHER -> c

toLowerCase(s) == [i \in 1..Len(s) |-> LowerChar(s[i])]

\* JavaScript numbers: NaN, or a value counted in thousandths
NaN == [nan |-> TRUE, n |-> 0]
Num(n) == [nan |-> FALSE, n |-> n]

\* the longest prefix of digits of s: <<its value, its length>>
RECURSIVE ParseDigits(_, _, _, _)
ParseDigits(s, radix, acc, cnt) ==
  IF s # <<>> /\ IsDigit(Head(s), radix)
  THEN ParseDigits(Tail(s), radix, acc * radix + HexVal(Head(s)), cnt + 1)
  ELSE <<acc, cnt>>

\* parseInt(s, radix); radix 0 stands for the one-argument call. Whole numbers.
parseInt(s, radix) ==
  LET neg == s # <<>> /\ Head(s) = "-"
      Value(d) == IF d[2] = 0 THEN NaN ELSE Num(IF neg THEN 0 - d[1] ELSE d[1])
      Digits(s1, hexPrefix) ==
        Value(IF hexPrefix
              THEN ParseDigits(SubSeq(s1, 3, Len(s1)), 16, 0, 0)
              ELSE ParseDigits(s1, IF radix = 0 THEN 10 ELSE radix, 0, 0))
      Unsigned(s1) ==
        Digits(s1, /\ Len(s1) >= 2
                   /\ s1[1] = "0"
                   /\ s1[2] \in {"x", "X"}
                   /\ radix \in {0, 16})
  IN Unsigned(IF s # <<>> /\ Head(s) \in {"-", "+"} THEN Tail(s) ELSE s)

\* parseFloat(s) in thousandths (decimal notation, up to three decimals kept)
parseFloat(s) ==
  LET neg == s # <<>> /\ Head(s) = "-"
      Signed(mag) == Num(IF neg THEN 0 - mag ELSE mag)
      Value(ip, fp) ==
        IF ip[2] = 0 /\ fp[2] = 0 THEN NaN
        ELSE Signed(ip[1] * 1000 + (CASE fp[2] = 0 -> 0
                                      [] fp[2] = 1 -> fp[1] * 100
                                      [] fp[2] = 2 -> fp[1] * 10
                                      [] OTHER -> fp[1]))
      Kept(fracStr) == SubSeq(fracStr, 1, IF Len(fracStr) < 3 THEN Len(fracStr) ELSE 3)
      Fraction(rest) == IF rest # <<>> /\ Head(rest) = "." THEN Kept(Tail(rest)) ELSE <<>>
      Parts(s1, ip) ==
        Value(ip, ParseDigits(Fraction(SubSeq(s1, ip[2] + 1, Len(s1))), 10, 0, 0))
      Unsigned(s1) == Parts(s1, ParseDigits(s1, 10, 0, 0))
  IN Unsigned(IF s # <<>> /\ Head(s) \in {"-", "+"} THEN Tail(s) ELSE s)

(***************************************************************************)
(* Risk indicator engine: utils/riskIndicators.ts                          *)
(***************************************************************************)
KNOWN_PROTOCOL_WHITELIST ==
  <<[address |-> <<"0", "x", "7", "a", "2", "5", "0", "d", "5", "6", "3", "0", "b", "4", "c", "f", "5", "3", "9", "7", "3", "9", "d", "f", "2", "c", "5", "d", "a", "c", "b", "4", "c", "6", "5", "9", "f", "2", "4", "8", "8", "d">>,
     name |-> "Uniswap V2 Router"],
    [address |-> <<"0", "x", "5", "c", "6", "9", "b", "e", "e", "7", "0", "1", "e", "f", "8", "1", "4", "a", "2", "b", "6", "a", "3", "e", "d", "d", "4", "b", "1", "6", "5", "2", "c", "b", "9", "c", "c", "5", "a", "a", "6", "f">>,
     name |-> "Uniswap V2 Factory"],
    [address |-> <<"0", "x", "e", "5", "9", "2", "4", "2", "7", "a", "0", "a", "e", "c", "e", "9", "2", "d", "e", "3", "e", "d", "e", "e", "1", "f", "1", "8", "e", "0", "1", "5", "7", "c", "0", "5", "8", "6", "1", "5", "6", "4">>,
     name |-> "Uniswap V3 Router"],
    [address |-> <<"0", "x", "1", "f", "9", "8", "4", "3", "1", "c", "8", "a", "d", "9", "8", "5", "2", "3", "6", "3", "1", "a", "e", "4", "a", "5", "9", "f", "2", "6", "7", "3", "4", "6", "e", "a", "3", "1", "f", "9", "8", "4">>,
     name |-> "Uniswap V3 Factory"],
    [address |-> <<"0", "x", "c", "3", "6", "4", "4", "2", "b", "4", "a", "4", "5", "2", "2", "e", "8", "7", "1", "3", "9", "9", "c", "d", "7", "1", "7", "a", "b", "d", "d", "8", "4", "7", "a", "b", "1", "1", "f", "e", "8", "8">>,
     name |-> "Uniswap V3 Positions NFT"],
    [address |-> <<"0", "x", "0", "0", "0", "0", "0", "0", "0", "0", "0", "0", "6", "c", "3", "8", "5", "2", "c", "b", "e", "f", "3", "e", "0", "8", "e", "8", "d", "f", "2", "8", "9", "1", "6", "9", "e", "d", "e", "5", "8", "1">>,
     name |-> "OpenSea Seaport"],
    [address |-> <<"0", "x", "a", "0", "b", "8", "6", "9", "9", "1", "c", "6", "2", "1", "8", "b", "3", "6", "c", "1", "d", "1", "9", "d", "4", "a", "2", "e", "9", "e", "b", "0", "c", "e", "3", "6", "0", "6", "e", "b", "4", "8">>,
     name |-> "USDC Token"],
    [address |-> <<"0", "x", "d", "a", "c", "1", "7", "f", "9", "5", "8", "d", "2", "e", "e", "5", "2", "3", "a", "2", "2", "0", "6", "2", "0", "6", "9", "9", "4", "5", "9", "7", "c", "1", "3", "d", "8", "3", "1", "e", "c", "7">>,
     name |-> "USDT Token"],
    [address |-> <<"0", "x", "6", "b", "1", "7", "5", "4", "7", "4", "e", "8", "9", "0", "9", "4", "c", "4", "4", "d", "a", "9", "8", "b", "9", "5", "4", "e", "e", "d", "e", "a", "c", "4", "9", "5", "2", "7", "1", "d", "0", "f">>,
     name |-> "DAI Token"],
    [address |-> <<"0", "x", "c", "0", "2", "a", "a", "a", "3", "9", "b", "2", "2", "3", "f", "e", "8", "d", "0", "a", "0", "e", "5", "c", "4", "f", "2", "7", "e", "a", "d", "9", "0", "8", "3", "c", "7", "5", "6", "c", "c", "2">>,
     name |-> "Wrapped ETH (WETH)"]>>
uniswapV2Router ==
  <<"0", "x", "7", "a", "2", "5", "0", "d", "5", "6", "3", "0", "B", "4", "c", "F", "5", "3", "9", "7", "3", "9", "d", "F", "2", "C", "5", "d", "A", "c", "b", "4", "c", "6", "5", "9", "F", "2", "4", "8", "8", "D">>
uniswapV3Router ==
  <<"0", "x", "E", "5", "9", "2", "4", "2", "7", "A", "0", "A", "E", "c", "e", "9", "2", "D", "e", "3", "E", "d", "e", "e", "1", "F", "1", "8", "E", "0", "1", "5", "7", "C", "0", "5", "8", "6", "1", "5", "6", "4">>
AddrWallet ==
  <<"0", "x", "7", "4", "2", "d", "3", "5", "C", "c", "6", "6", "3", "4", "C", "0", "5", "3", "2", "9", "2", "5", "a", "3", "b", "8", "D", "4", "C", "9", "d", "b", "9", "6", "C", "4", "b", "4", "d", "8", "b", "6">>
AddrToken ==
  <<"0", "x", "0", "9", "8", "7", "6", "5", "4", "3", "2", "1", "0", "9", "8", "7", "6", "5", "4", "3", "2", "1", "0", "9", "8", "7", "6", "5", "4", "3", "2", "1", "0", "9", "8", "7", "6", "5", "4", "3", "2", "1">>
AddrOther ==
  <<"0", "x", "1", "2", "3", "4", "5", "6", "7", "8", "9", "0", "1", "2", "3", "4", "5", "6", "7", "8", "9", "0", "1", "2", "3", "4", "5", "6", "7", "8", "9", "0", "1", "2", "3", "4", "5", "6", "7", "8", "9", "0">>

getKnownProtocol(address) ==
  LET hits == {i \in 1..Len(KNOWN_PROTOCOL_WHITELIST) :
                 KNOWN_PROTOCOL_WHITELIST[i].address = toLowerCase(address)}
  IN IF hits = {} THEN None
     ELSE Some(KNOWN_PROTOCOL_WHITELIST[CHOOSE i \in hits : TRUE].name)

Indicator(type, severity, message, source, detail) ==
  [type |-> type, severity |-> severity, message |-> message, source |-> source,
   detail |-> detail]

\* what a check evaluates to: an indicator, null, or an exception leaving it
Return(v) == [threw |-> FALSE, value |-> Some(v)]
ReturnNull == [threw |-> FALSE, value |-> None]
Throw == [threw |-> TRUE, value |-> None]

\* A fetch and its response.json(): the request is rejected, the body is not
\* JSON, or the body parses to `data`.
Rejected == [kind |-> "reject", data |-> <<>>]
BadJson == [kind |-> "badjson", data |-> <<>>]
Json(data) == [kind |-> "json", data |-> data]
NoResp == [kind |-> "none", data |-> <<>>]
FetchFails(resp) == resp.kind # "json"

KnownProtocolIndicator(name) ==
  Indicator("UNVERIFIED_CONTRACT", "info", "Verified Contract (Known Protocol)",
            "Fallback Verification", <<name>>)

\* the try block of checkContractVerification
checkContractVerificationBody(contractAddress, resp) ==
  IF FetchFails(resp) THEN Throw
  ELSE LET data == resp.data
           knownProtocol == getKnownProtocol(contractAddress)
       IN IF data.status = "1" /\ Present(data.result) /\ Len(Get(data.result)) > 0
          THEN LET contract == Get(data.result)[1]
               IN IF Present(contract.SourceCode)
                     /\ Get(contract.SourceCode) # <<>>
                     /\ \E i \in 1..Len(Get(contract.SourceCode)) :
                          Get(contract.SourceCode)[i] # " "
                  THEN Return(Indicator("UNVERIFIED_CONTRACT", "info",
                                        "Contract is verified on Etherscan",
                                        "Etherscan API", <<>>))
                  ELSE IF Present(knownProtocol)
                  THEN Return(KnownProtocolIndicator(Get(knownProtocol)))
                  ELSE Return(Indicator("UNVERIFIED_CONTRACT", "warning",
                                        "Contract is not verified on Etherscan",
                                        "Etherscan API", <<>>))
          ELSE IF Present(knownProtocol)
          THEN Return(KnownProtocolIndicator(Get(knownProtocol)))
          ELSE Return(Indicator("UNVERIFIED_CONTRACT", "warning",
                                "Unable to verify contract status",
                                "Etherscan API", <<>>))

\* the catch block of checkContractVerification
checkContractVerificationCatch(contractAddress) ==
  LET knownProtocol == getKnownProtocol(contractAddress)
  IN IF Present(knownProtocol)
     THEN Return(KnownProtocolIndicator(Get(knownProtocol)))
     ELSE Return(Indicator("UNVERIFIED_CONTRACT", "warning",
                           "Unable to verify contract status",
                           "Etherscan API (Error)", <<>>))

checkContractVerification(contractAddress, resp) ==
  LET body == checkContractVerificationBody(contractAddress, resp)
  IN IF body.threw THEN checkContractVerificationCatch(contractAddress) ELSE body

\* the first request of checkTokenAge fails, or its status is not '1'
BlockFetchFails(blockResp) == FetchFails(blockResp) \/ blockResp.data.status # "1"

\* Math.floor((blockAge * 12) / (24 * 60 * 60))
EstimatedDays(currentBlock, creationBlock) ==
  IF currentBlock.nan \/ creationBlock.nan THEN NaN
  ELSE Num(((currentBlock.n - creationBlock.n) * 12) \div (24 * 60 * 60))

\* the try block of checkTokenAge
checkTokenAgeBody(blockResp, txResp) ==
  IF BlockFetchFails(blockResp) THEN Throw
  ELSE IF FetchFails(txResp) THEN Throw
  ELSE LET currentBlock == parseInt(blockResp.data.result, 16)
           txData == txResp.data
       IN IF txData.status = "1" /\ Present(txData.result) /\ Len(Get(txData.result)) > 0
          THEN LET creationBlock == parseInt(Get(txData.result)[1].blockNumber, 0)
                   estimatedDays == EstimatedDays(currentBlock, creationBlock)
               IN IF ~estimatedDays.nan /\ estimatedDays.n < 7
                  THEN Return(Indicator("NEW_TOKEN", "warning", "Token is very new",
                                        "Etherscan API", <<estimatedDays>>))
                  ELSE IF ~estimatedDays.nan /\ estimatedDays.n < 30
                  THEN Return(Indicator("NEW_TOKEN", "info", "Token is relatively new",
                                        "Etherscan API", <<estimatedDays>>))
                  ELSE Return(Indicator("NEW_TOKEN", "info", "Token age",
                                        "Etherscan API", <<estimatedDays>>))
          ELSE Return(Indicator("NEW_TOKEN", "warning", "Unable to determine token age",
                                "Etherscan API", <<>>))

\* checkTokenAge without its catch block
checkTokenAge_noCatch(blockResp, txResp) == checkTokenAgeBody(blockResp, txResp)

checkTokenAge(blockResp, txResp) ==
  LET body == checkTokenAgeBody(blockResp, txResp)
  IN IF body.threw
     THEN Return(Indicator("NEW_TOKEN", "warning", "Unable to determine token age",
                           "Etherscan API (Error)", <<>>))
     ELSE body

\* tx.to / tx.from of one listed transaction matches a Uniswap router
IsUniswapTx(tx) ==
  \/ Present(tx.to) /\ toLowerCase(Get(tx.to)) = toLowerCase(uniswapV2Router)
  \/ Present(tx.to) /\ toLowerCase(Get(tx.to)) = toLowerCase(uniswapV3Router)
  \/ Present(tx.from) /\ toLowerCase(Get(tx.from)) = toLowerCase(uniswapV2Router)
  \/ Present(tx.from) /\ toLowerCase(Get(tx.from)) = toLowerCase(uniswapV3Router)

\* the try block of checkDEXPoolPresence
checkDEXPoolPresenceBody(resp) ==
  IF FetchFails(resp) THEN Throw
  ELSE LET data == resp.data
       IN IF data.status = "1" /\ Present(data.result) /\ Len(Get(data.result)) > 0
          THEN LET hasUniswapActivity ==
                     \E i \in 1..Len(Get(data.result)) : IsUniswapTx(Get(data.result)[i])
               IN IF hasUniswapActivity
                  THEN Return(Indicator("NO_DEX_POOL", "info",
                                        "Token has Uniswap trading activity",
                                        "Etherscan API", <<>>))
                  ELSE Return(Indicator("NO_DEX_POOL", "warning",
                                        "No major DEX trading activity found",
                                        "Etherscan API", <<>>))
          ELSE Return(Indicator("NO_DEX_POOL", "warning",
                                "Unable to verify DEX pool presence",
                                "Etherscan API", <<>>))

checkDEXPoolPresence(resp) ==
  LET body == checkDEXPoolPresenceBody(resp)
  IN IF body.threw
     THEN Return(Indicator("NO_DEX_POOL", "warning", "Unable to verify DEX pool presence",
                           "Etherscan API (Error)", <<>>))
     ELSE body

\* value.toFixed(2), in hundredths
toFixed2(value) == IF value.n >= 0 THEN (value.n + 5) \div 10 ELSE 0 - ((5 - value.n) \div 10)

\* checkTransactionValue with >= in place of > at the upper threshold
checkTransactionValue_inclusive(valueInEth) ==
  LET Check(value) ==
        IF ~value.nan /\ value.n >= 10 * 1000
        THEN Return(Indicator("HIGH_VALUE", "warning", "High value transaction",
                              "Transaction Analysis", <<toFixed2(value)>>))
        ELSE IF ~value.nan /\ value.n > 1 * 1000
        THEN Return(Indicator("HIGH_VALUE", "info", "Medium value transaction",
                              "Transaction Analysis", <<toFixed2(value)>>))
        ELSE ReturnNull
  IN Check(parseFloat(valueInEth))

checkTransactionValue(valueInEth) ==
  LET Check(value) ==
        IF ~value.nan /\ value.n > 10 * 1000
        THEN Return(Indicator("HIGH_VALUE", "warning", "High value transaction",
                              "Transaction Analysis", <<toFixed2(value)>>))
        ELSE IF ~value.nan /\ value.n > 1 * 1000
        THEN Return(Indicator("HIGH_VALUE", "info", "Medium value transaction",
                              "Transaction Analysis", <<toFixed2(value)>>))
        ELSE ReturnNull
  IN Check(parseFloat(valueInEth))

\* isContract: data.result && data.result !== '0x' && data.result.length > 2,
\* and false when the request or its parsing throws
isContract(resp) ==
  IF FetchFails(resp) THEN FALSE
  ELSE /\ Present(resp.data.result)
       /\ Get(resp.data.result) # <<>>
       /\ Get(resp.data.result) # <<"0", "x">>
       /\ Len(Get(resp.data.result)) > 2

NonContractWarning ==
  Indicator("UNVERIFIED_CONTRACT", "warning",
            "Transaction data sent to non-contract address", "Transaction Analysis", <<>>)

SimpleTransferIndicator ==
  Indicator("UNVERIFIED_CONTRACT", "info",
            "Simple ETH transfer to wallet address", "Transaction Analysis", <<>>)

UnableToAnalyze ==
  Indicator("UNVERIFIED_CONTRACT", "warning",
            "Unable to analyze risk indicators", "Risk Analysis (Error)", <<>>)

\* JavaScript truthiness of an optional string
Truthy(opt) == Present(opt) /\ Get(opt) # <<>>

hasTransactionData(transactionData) ==
  /\ Truthy(transactionData)
  /\ Get(transactionData) # <<"0", "x">>
  /\ Len(Get(transactionData)) > 2

\* tokenAddress && tokenAddress !== recipientAddress
TokenChecksApply(rk) ==
  Truthy(rk.tokenAddress) /\ Get(rk.tokenAddress) # rk.recipientAddress

\* Push, but with unshift in place of push
Push_unshift(rk, res) ==
  IF Present(res.value) THEN [rk EXCEPT !.indicators = <<Get(res.value)>> \o @] ELSE rk

\* if (x) indicators.push(x)
Push(rk, res) ==
  IF Present(res.value) THEN [rk EXCEPT !.indicators = Append(@, Get(res.value))] ELSE rk

\* the catch of analyzeRiskIndicators
Caught(rk) == [rk EXCEPT !.pc = "done", !.result = Some(<<UnableToAnalyze>>)]

\* Finish, but the simple-transfer indicator is added to a non-empty list too
Finish_alwaysSimple(rk) ==
  LET Done(w) == [w EXCEPT !.pc = "done", !.result = Some(w.indicators)]
      Simple(v) == IF ~hasTransactionData(rk.transactionData)
                   THEN Done([v EXCEPT !.indicators = Append(@, SimpleTransferIndicator)])
                   ELSE Done(v)
      Value(valueIndicator) ==
        IF valueIndicator.threw THEN Caught(rk) ELSE Simple(Push(rk, valueIndicator))
  IN Value(IF Truthy(rk.valueInEth)
           THEN checkTransactionValue(Get(rk.valueInEth))
           ELSE ReturnNull)

\* the value check, the simple-transfer indicator and the return
Finish(rk) ==
  LET Done(w) == [w EXCEPT !.pc = "done", !.result = Some(w.indicators)]
      Simple(v) == IF Len(v.indicators) = 0 /\ ~hasTransactionData(rk.transactionData)
                   THEN Done([v EXCEPT !.indicators = Append(@, SimpleTransferIndicator)])
                   ELSE Done(v)
      Value(valueIndicator) ==
        IF valueIndicator.threw THEN Caught(rk) ELSE Simple(Push(rk, valueIndicator))
  IN Value(IF Truthy(rk.valueInEth)
           THEN checkTransactionValue(Get(rk.valueInEth))
           ELSE ReturnNull)

\* after the contract check: the token checks, if they apply
AfterContractCheck(rk) ==
  IF TokenChecksApply(rk) THEN [rk EXCEPT !.pc = "tokenAgeBlock"] ELSE Finish(rk)

RiskCall(recipientAddress, tokenAddress, valueInEth, transactionData) ==
  [pc |-> "start",
   recipientAddress |-> recipientAddress, tokenAddress |-> tokenAddress,
   valueInEth |-> valueInEth, transactionData |-> transactionData,
   indicators |-> <<>>, contractLookup |-> "none",
   codeResp |-> NoResp, verifyResp |-> NoResp, blockResp |-> NoResp,
   txResp |-> NoResp, dexResp |-> NoResp,
   result |-> None]

RiskIdle == [pc |-> "idle"]

\* analyzeRiskIndicators up to its first await
analyzeRiskIndicators ==
  /\ risk.pc = "start"
  /\ risk' = IF hasTransactionData(risk.transactionData)
             THEN [risk EXCEPT !.pc = "isContract"]
             ELSE AfterContractCheck(risk)
  /\ UNCHANGED <<ivars, pvars, avars, lvars, dvars>>

\* IsContractDone, but the verification query is made for a non-contract too
IsContractDone_alwaysVerifies(resp) ==
  /\ risk.pc = "isContract"
  /\ LET rk == [risk EXCEPT !.codeResp = resp]
     IN risk' = IF isContract(resp)
                THEN [rk EXCEPT !.pc = "verification", !.contractLookup = "contract"]
                ELSE [rk EXCEPT !.pc = "verification", !.contractLookup = "noContract",
                                !.indicators = Append(@, NonContractWarning)]
  /\ UNCHANGED <<ivars, pvars, avars, lvars, dvars>>

\* `await isContract(recipientAddress)` returns
IsContractDone(resp) ==
  /\ risk.pc = "isContract"
  /\ LET rk == [risk EXCEPT !.codeResp = resp]
     IN risk' = IF isContract(resp)
                THEN [rk EXCEPT !.pc = "verification", !.contractLookup = "contract"]
                ELSE AfterContractCheck(
                       [rk EXCEPT !.contractLookup = "noContract",
                                  !.indicators = Append(@, NonContractWarning)])
  /\ UNCHANGED <<ivars, pvars, avars, lvars, dvars>>

\* `await checkContractVerification(recipientAddress)` returns
VerificationDone(resp) ==
  /\ risk.pc = "verification"
  /\ LET rk == [risk EXCEPT !.verifyResp = resp]
         contractVerification == checkContractVerification(risk.recipientAddress, resp)
     IN risk' = IF contractVerification.threw THEN Caught(rk)
                ELSE AfterContractCheck(Push(rk, contractVerification))
  /\ UNCHANGED <<ivars, pvars, avars, lvars, dvars>>

\* checkTokenAge: the block-number request returns
TokenAgeBlockDone(resp) ==
  /\ risk.pc = "tokenAgeBlock"
  /\ LET rk == [risk EXCEPT !.blockResp = resp]
         tokenAge == checkTokenAge(resp, NoResp)
     IN risk' = IF ~BlockFetchFails(resp) THEN [rk EXCEPT !.pc = "tokenAgeTx"]
                ELSE IF tokenAge.threw THEN Caught(rk)
                ELSE [Push(rk, tokenAge) EXCEPT !.pc = "dexPool"]
  /\ UNCHANGED <<ivars, pvars, avars, lvars, dvars>>

\* checkTokenAge: the transaction-list request returns
TokenAgeTxDone(resp) ==
  /\ risk.pc = "tokenAgeTx"
  /\ LET rk == [risk EXCEPT !.txResp = resp]
         tokenAge == checkTokenAge(risk.blockResp, resp)
     IN risk' = IF tokenAge.threw THEN Caught(rk)
                ELSE [Push(rk, tokenAge) EXCEPT !.pc = "dexPool"]
  /\ UNCHANGED <<ivars, pvars, avars, lvars, dvars>>

\* `await checkDEXPoolPresence(tokenAddress)` returns
DexPoolDone(resp) ==
  /\ risk.pc = "dexPool"
  /\ LET rk == [risk EXCEPT !.dexResp = resp]
         dexPool == checkDEXPoolPresence(resp)
     IN risk' = IF dexPool.threw THEN Caught(rk)
                ELSE Finish(Push(rk, dexPool))
  /\ UNCHANGED <<ivars, pvars, avars, lvars, dvars>>

\* ---- the arguments and responses the engine is run on ----
Recipients == {uniswapV2Router, AddrOther, AddrWallet}

TokenAddresses ==
  {None, Some(<<>>), Some(AddrToken), Some(AddrOther), Some(toLowerCase(uniswapV2Router))}

ValueStrings ==
  {None, Some(<<>>), Some(<<"0", ".", "5">>), Some(<<"1">>), Some(<<"1", ".", "0", "0", "1">>),
   Some(<<"1", "0">>), Some(<<"1", "0", ".", "0", "0", "1">>), Some(<<"1", "5", ".", "5">>), Some(<<"a", "b", "c">>)}

DataStrings ==
  {None, Some(<<>>), Some(<<"0", "x">>), Some(<<"0", "x", "1">>), Some(<<"0", "x", "a", "9", "0", "5", "9", "c", "b", "b">>)}

CodeResps ==
  {Rejected, BadJson, Json([result |-> None]), Json([result |-> Some(<<"0", "x">>)]),
   Json([result |-> Some(<<"0", "x", "6", "0", "8", "0">>)])}

Source(code) == [SourceCode |-> Some(code)]

VerifyResps ==
  {Rejected, BadJson,
   Json([status |-> "0", result |-> None]),
   Json([status |-> "1", result |-> Some(<<>>)]),
   Json([status |-> "1", result |-> Some(<<Source(<<>>)>>)]),
   Json([status |-> "1", result |-> Some(<<Source(<<" ", " ">>)>>)]),
   Json([status |-> "1", result |-> Some(<<Source(<<"c", "o", "n", "t", "r", "a", "c", "t">>)>>)])}

BlockResps ==
  {Rejected, BadJson,
   Json([status |-> "0", result |-> <<"0", "x", "1", "2", "3", "4", "5", "6", "7">>]),
   Json([status |-> "1", result |-> <<"0", "x", "1", "2", "3", "4", "5", "6", "7">>]),
   Json([status |-> "1", result |-> <<"z", "z">>])}

FirstTx(blockNumber) == Some(<<[blockNumber |-> blockNumber]>>)

\* the current block 0x1234567 is 19088743: 6, 7, 29 and 30 days, a block in
\* the future and a block number that does not parse
TxResps ==
  {Rejected, BadJson,
   Json([status |-> "0", result |-> None]),
   Json([status |-> "1", result |-> Some(<<>>)]),
   Json([status |-> "1", result |-> FirstTx(<<"1", "9", "0", "3", "8", "3", "4", "4">>)]),
   Json([status |-> "1", result |-> FirstTx(<<"1", "9", "0", "3", "8", "3", "4", "3">>)]),
   Json([status |-> "1", result |-> FirstTx(<<"1", "8", "8", "7", "2", "7", "4", "4">>)]),
   Json([status |-> "1", result |-> FirstTx(<<"1", "8", "8", "7", "2", "7", "4", "3">>)]),
   Json([status |-> "1", result |-> FirstTx(<<"2", "0", "0", "0", "0", "0", "0", "0">>)]),
   Json([status |-> "1", result |-> FirstTx(<<"x", "y", "z">>)])}

DexResps ==
  {Rejected, BadJson,
   Json([status |-> "0", result |-> None]),
   Json([status |-> "1", result |-> Some(<<>>)]),
   Json([status |-> "1", result |-> Some(<<[to |-> Some(uniswapV2Router),
                                            from |-> Some(AddrOther)]>>)]),
   Json([status |-> "1", result |-> Some(<<[to |-> None,
                                            from |-> Some(toLowerCase(uniswapV3Router))]>>)]),
   Json([status |-> "1", result |-> Some(<<[to |-> Some(AddrWallet),
                                            from |-> Some(AddrOther)]>>)])}

(***************************************************************************)
(* Transaction parser: utils/transactionParser.ts                          *)
(*                                                                         *)
(* Big integers are canonical sequences of decimal digits, so that values  *)
(* of 256 bits are converted and compared digit by digit.                  *)
(***************************************************************************)
\* s.includes(sub)
includes(s, sub) ==
  \E i \in 0..(Len(s) - Len(sub)) : SubSeq(s, i + 1, i + Len(sub)) = sub

Zeros(n) == [i \in 1..n |-> "0"]

\* a digit sequence without its leading zeros
StripZeros(d) ==
  LET nonZero == {i \in 1..Len(d) : d[i] # "0"}
  IN IF d = <<>> THEN d
     ELSE IF nonZero = {} THEN <<"0">>
     ELSE SubSeq(d, CHOOSE i \in nonZero : \A j \in nonZero : i <= j, Len(d))

DigitChar(n) == <<"0", "1", "2", "3", "4", "5", "6", "7", "8", "9">>[n + 1]

\* Big integers are computed in limbs of four decimal digits, least
\* significant first, four hexadecimal digits at a time.
\* limbs i.. of `limbs`, times m, plus carry
RECURSIVE MulAdd(_, _, _, _)
MulAdd(limbs, i, m, carry) ==
  IF i > Len(limbs)
  THEN IF carry = 0 THEN <<>>
       ELSE <<carry % 10000>> \o MulAdd(limbs, i, m, carry \div 10000)
  ELSE LET t == limbs[i] * m + carry
       IN <<t % 10000>> \o MulAdd(limbs, i + 1, m, t \div 10000)

\* the hexadecimal digit at a position, 0 left of the first digit
HexDigitAt(hex, pos) == IF pos >= 1 THEN HexVal(hex[pos]) ELSE 0

\* the value of the j-th group of four hexadecimal digits, counted from the left
\* of the k groups that hold hex
ChunkValue(hex, j, k) ==
  LET last == Len(hex) - 4 * (k - j)
  IN HexDigitAt(hex, last - 3) * 4096 + HexDigitAt(hex, last - 2) * 256
       + HexDigitAt(hex, last - 1) * 16 + HexDigitAt(hex, last)

\* the limbs of the number the first j groups denote
RECURSIVE HexToLimbs(_, _, _)
HexToLimbs(hex, j, k) ==
  IF j = 0 THEN <<>>
  ELSE MulAdd(HexToLimbs(hex, j - 1, k), 1, 65536, ChunkValue(hex, j, k))

\* the decimal digits of limbs
LimbsToDigits(limbs) ==
  [p \in 1..(4 * Len(limbs)) |->
     LET limb == limbs[Len(limbs) - ((p - 1) \div 4)]
         place == (p - 1) % 4
     IN DigitChar(CASE place = 0 -> limb \div 1000
                    [] place = 1 -> (limb \div 100) % 10
                    [] place = 2 -> (limb \div 10) % 10
                    [] OTHER -> limb % 10)]

\* the decimal digits of the number a sequence of hexadecimal digits denotes
HexToDec(hex) ==
  LET k == (Len(hex) + 3) \div 4
      digits == LimbsToDigits(HexToLimbs(hex, k, k))
  IN IF digits = <<>> THEN <<"0">> ELSE StripZeros(digits)

IsHex(s) == s # <<>> /\ \A i \in 1..Len(s) : HexVal(s[i]) >= 0
IsDecimal(s) == s # <<>> /\ \A i \in 1..Len(s) : IsDigit(s[i], 10)

\* a >= b on canonical decimal digit sequences
BigGte(a, b) ==
  \/ Len(a) > Len(b)
  \/ /\ Len(a) = Len(b)
     /\ \/ a = b
        \/ \E i \in 1..Len(a) : /\ SubSeq(a, 1, i - 1) = SubSeq(b, 1, i - 1)
                                /\ HexVal(a[i]) > HexVal(b[i])

\* JavaScript values held in a parameter list
BigIntValue(dec) == [k |-> "bigint", big |-> dec]
StringValue(chars) == [k |-> "string", str |-> chars]
ArrayValue(items) == [k |-> "array", items |-> items]

\* BigInt(str) for an unsigned string: hexadecimal with 0x, or decimal
getBigIntOfString(s) ==
  IF Len(s) > 2 /\ s[1] = "0" /\ s[2] \in {"x", "X"} /\ IsHex(SubSeq(s, 3, Len(s)))
  THEN Return(HexToDec(SubSeq(s, 3, Len(s))))
  ELSE IF IsDecimal(s) THEN Return(StripZeros(s))
  ELSE Throw

\* ethers.getBigInt(value)
getBigInt(value) ==
  CASE value.k = "bigint" -> Return(value.big)
    [] value.k = "string" -> getBigIntOfString(value.str)
    [] OTHER -> Throw

\* a digit sequence without its trailing zeros, the first digit always kept
StripTrailingZeros(d) ==
  LET nonZero == {i \in 1..Len(d) : d[i] # "0"} \cup {1}
  IN SubSeq(d, 1, CHOOSE i \in nonZero : \A j \in nonZero : i >= j)

\* ethers.formatUnits(value, decimals) of a non-negative value
formatUnits(value, decimals) ==
  LET padded == IF Len(value) <= decimals
                THEN Zeros(decimals + 1 - Len(value)) \o value ELSE value
      whole == SubSeq(padded, 1, Len(padded) - decimals)
      frac == SubSeq(padded, Len(padded) - decimals + 1, Len(padded))
  IN whole \o <<".">> \o StripTrailingZeros(frac)

TRANSFER == "transfer"
SWAP == "swap"
APPROVAL == "approval"
LIQUIDITY == "liquidity"
UNKNOWN == "unknown"

FUNCTION_SIGNATURES ==
  <<[func |-> <<"t", "r", "a", "n", "s", "f", "e", "r", "(", "a", "d", "d", "r", "e", "s", "s", ",", "u", "i", "n", "t", "2", "5", "6", ")">>, sig |-> <<"a", "9", "0", "5", "9", "c", "b", "b">>],
    [func |-> <<"t", "r", "a", "n", "s", "f", "e", "r", "F", "r", "o", "m", "(", "a", "d", "d", "r", "e", "s", "s", ",", "a", "d", "d", "r", "e", "s", "s", ",", "u", "i", "n", "t", "2", "5", "6", ")">>, sig |-> <<"2", "3", "b", "8", "7", "2", "d", "d">>],
    [func |-> <<"a", "p", "p", "r", "o", "v", "e", "(", "a", "d", "d", "r", "e", "s", "s", ",", "u", "i", "n", "t", "2", "5", "6", ")">>, sig |-> <<"0", "9", "5", "e", "a", "7", "b", "3">>],
    [func |-> <<"s", "w", "a", "p", "E", "x", "a", "c", "t", "T", "o", "k", "e", "n", "s", "F", "o", "r", "T", "o", "k", "e", "n", "s", "(", "u", "i", "n", "t", "2", "5", "6", ",", "u", "i", "n", "t", "2", "5", "6", ",", "a", "d", "d", "r", "e", "s", "s", "[", "]", ",", "a", "d", "d", "r", "e", "s", "s", ",", "u", "i", "n", "t", "2", "5", "6", ")">>,
     sig |-> <<"3", "8", "e", "d", "1", "7", "3", "9">>],
    [func |-> <<"s", "w", "a", "p", "T", "o", "k", "e", "n", "s", "F", "o", "r", "E", "x", "a", "c", "t", "T", "o", "k", "e", "n", "s", "(", "u", "i", "n", "t", "2", "5", "6", ",", "u", "i", "n", "t", "2", "5", "6", ",", "a", "d", "d", "r", "e", "s", "s", "[", "]", ",", "a", "d", "d", "r", "e", "s", "s", ",", "u", "i", "n", "t", "2", "5", "6", ")">>,
     sig |-> <<"8", "8", "0", "3", "d", "b", "e", "e">>],
    [func |-> <<"s", "w", "a", "p", "E", "x", "a", "c", "t", "E", "T", "H", "F", "o", "r", "T", "o", "k", "e", "n", "s", "(", "u", "i", "n", "t", "2", "5", "6", ",", "a", "d", "d", "r", "e", "s", "s", "[", "]", ",", "a", "d", "d", "r", "e", "s", "s", ",", "u", "i", "n", "t", "2", "5", "6", ")">>,
     sig |-> <<"7", "f", "f", "3", "6", "a", "b", "5">>],
    [func |-> <<"s", "w", "a", "p", "T", "o", "k", "e", "n", "s", "F", "o", "r", "E", "x", "a", "c", "t", "E", "T", "H", "(", "u", "i", "n", "t", "2", "5", "6", ",", "u", "i", "n", "t", "2", "5", "6", ",", "a", "d", "d", "r", "e", "s", "s", "[", "]", ",", "a", "d", "d", "r", "e", "s", "s", ",", "u", "i", "n", "t", "2", "5", "6", ")">>,
     sig |-> <<"4", "a", "2", "5", "d", "9", "4", "a">>],
    [func |-> <<"s", "w", "a", "p", "E", "x", "a", "c", "t", "T", "o", "k", "e", "n", "s", "F", "o", "r", "E", "T", "H", "(", "u", "i", "n", "t", "2", "5", "6", ",", "u", "i", "n", "t", "2", "5", "6", ",", "a", "d", "d", "r", "e", "s", "s", "[", "]", ",", "a", "d", "d", "r", "e", "s", "s", ",", "u", "i", "n", "t", "2", "5", "6", ")">>,
     sig |-> <<"1", "8", "c", "b", "a", "f", "e", "5">>],
    [func |-> <<"s", "w", "a", "p", "E", "T", "H", "F", "o", "r", "E", "x", "a", "c", "t", "T", "o", "k", "e", "n", "s", "(", "u", "i", "n", "t", "2", "5", "6", ",", "a", "d", "d", "r", "e", "s", "s", "[", "]", ",", "a", "d", "d", "r", "e", "s", "s", ",", "u", "i", "n", "t", "2", "5", "6", ")">>,
     sig |-> <<"f", "b", "3", "b", "d", "b", "4", "1">>],
    [func |-> <<"a", "d", "d", "L", "i", "q", "u", "i", "d", "i", "t", "y", "(", "a", "d", "d", "r", "e", "s", "s", ",", "a", "d", "d", "r", "e", "s", "s", ",", "u", "i", "n", "t", "2", "5", "6", ",", "u", "i", "n", "t", "2", "5", "6", ",", "u", "i", "n", "t", "2", "5", "6", ",", "u", "i", "n", "t", "2", "5", "6", ",", "a", "d", "d", "r", "e", "s", "s", ",", "u", "i", "n", "t", "2", "5", "6", ")">>,
     sig |-> <<"e", "8", "e", "3", "3", "7", "0", "0">>],
    [func |-> <<"a", "d", "d", "L", "i", "q", "u", "i", "d", "i", "t", "y", "E", "T", "H", "(", "a", "d", "d", "r", "e", "s", "s", ",", "u", "i", "n", "t", "2", "5", "6", ",", "u", "i", "n", "t", "2", "5", "6", ",", "u", "i", "n", "t", "2", "5", "6", ",", "a", "d", "d", "r", "e", "s", "s", ",", "u", "i", "n", "t", "2", "5", "6", ")">>,
     sig |-> <<"f", "3", "0", "5", "d", "7", "1", "9">>],
    [func |-> <<"r", "e", "m", "o", "v", "e", "L", "i", "q", "u", "i", "d", "i", "t", "y", "(", "a", "d", "d", "r", "e", "s", "s", ",", "a", "d", "d", "r", "e", "s", "s", ",", "u", "i", "n", "t", "2", "5", "6", ",", "u", "i", "n", "t", "2", "5", "6", ",", "u", "i", "n", "t", "2", "5", "6", ",", "a", "d", "d", "r", "e", "s", "s", ",", "u", "i", "n", "t", "2", "5", "6", ")">>,
     sig |-> <<"b", "a", "a", "2", "a", "b", "d", "e">>],
    [func |-> <<"r", "e", "m", "o", "v", "e", "L", "i", "q", "u", "i", "d", "i", "t", "y", "E", "T", "H", "(", "a", "d", "d", "r", "e", "s", "s", ",", "u", "i", "n", "t", "2", "5", "6", ",", "u", "i", "n", "t", "2", "5", "6", ",", "u", "i", "n", "t", "2", "5", "6", ",", "a", "d", "d", "r", "e", "s", "s", ",", "u", "i", "n", "t", "2", "5", "6", ")">>,
     sig |-> <<"0", "2", "7", "5", "1", "c", "e", "c">>]>>

\* SIGNATURE_TO_FUNCTION[functionSignature]
SIGNATURE_TO_FUNCTION(functionSignature) ==
  LET hits == {i \in 1..Len(FUNCTION_SIGNATURES) :
                 FUNCTION_SIGNATURES[i].sig = functionSignature}
  IN IF hits = {} THEN None
     ELSE Some(FUNCTION_SIGNATURES[CHOOSE i \in hits : TRUE].func)

\* determineTransactionType, but without the liquidity rule
determineTransactionType_noLiquidity(functionName) ==
  IF includes(functionName, <<"t", "r", "a", "n", "s", "f", "e", "r">>) THEN TRANSFER
  ELSE IF includes(functionName, <<"s", "w", "a", "p">>) THEN SWAP
  ELSE IF includes(functionName, <<"a", "p", "p", "r", "o", "v", "e">>) THEN APPROVAL
  ELSE UNKNOWN

determineTransactionType(functionName) ==
  IF includes(functionName, <<"t", "r", "a", "n", "s", "f", "e", "r">>) THEN TRANSFER
  ELSE IF includes(functionName, <<"s", "w", "a", "p">>) THEN SWAP
  ELSE IF includes(functionName, <<"a", "p", "p", "r", "o", "v", "e">>) THEN APPROVAL
  ELSE IF includes(functionName, <<"a", "d", "d", "L", "i", "q", "u", "i", "d", "i", "t", "y">>)
          \/ includes(functionName, <<"r", "e", "m", "o", "v", "e", "L", "i", "q", "u", "i", "d", "i", "t", "y">>) THEN LIQUIDITY
  ELSE UNKNOWN

\* str.split(sep) of a non-empty string
RECURSIVE split(_, _)
split(s, sep) ==
  IF \A i \in 1..Len(s) : s[i] # sep THEN <<s>>
  ELSE LET i == CHOOSE i \in 1..Len(s) : s[i] = sep /\ \A j \in 1..(i - 1) : s[j] # sep
       IN <<SubSeq(s, 1, i - 1)>> \o split(SubSeq(s, i + 1, Len(s)), sep)

WordChars ==
  {"a", "b", "c", "d", "e", "f", "g", "h", "i", "j", "k", "l", "m", "n", "o", "p", "q",
   "r", "s", "t", "u", "v", "w", "x", "y", "z", "A", "B", "C", "D", "E", "F", "G", "H",
   "I", "J", "K", "L", "M", "N", "O", "P", "Q", "R", "S", "T", "U", "V", "W", "X", "Y",
   "Z", "0", "1", "2", "3", "4", "5", "6", "7", "8", "9", "_"}

\* the fragment of /^(\w+)\(([^)]*)\)$/: its name and the types of its inputs,
\* or null when the prototype does not match
createAbiFragment(functionName) ==
  LET opens == {i \in 1..Len(functionName) : functionName[i] = "("}
      open == CHOOSE i \in opens : \A j \in opens : i <= j
      params == SubSeq(functionName, open + 1, Len(functionName) - 1)
  IN IF /\ opens # {}
        /\ open > 1
        /\ \A i \in 1..(open - 1) : functionName[i] \in WordChars
        /\ functionName[Len(functionName)] = ")"
        /\ \A i \in 1..Len(params) : params[i] # ")"
     THEN Some([name |-> SubSeq(functionName, 1, open - 1),
                inputs |-> IF params = <<>> THEN <<>> ELSE split(params, ",")])
     ELSE None

\* ---- ethers' Interface.decodeFunctionData, on the hexadecimal text ----
WordLen == 64

\* the number a 32-byte word holds when it fits six hexadecimal digits
WordSmall(w) ==
  IF SubSeq(w, 1, WordLen - 6) = Zeros(WordLen - 6)
  THEN Num(ParseDigits(SubSeq(w, WordLen - 5, WordLen), 16, 0, 0)[1])
  ELSE NaN

\* the word at a character offset of the payload, if the payload holds it
WordAt(p, at) ==
  IF at + WordLen <= Len(p) THEN Some(SubSeq(p, at + 1, at + WordLen)) ELSE None

\* an address word: the upper twelve bytes must be zero
DecodeAddress(w) ==
  IF SubSeq(w, 1, 24) = Zeros(24)
  THEN Return(StringValue(<<"0", "x">> \o toLowerCase(SubSeq(w, 25, WordLen))))
  ELSE Throw

\* the elements of an address[] whose length word is at character offset `at`
RECURSIVE DecodeAddresses(_, _, _)
DecodeAddresses(p, at, count) ==
  IF count = 0 THEN Return(<<>>)
  ELSE LET w == WordAt(p, at)
           first == IF Present(w) THEN DecodeAddress(Get(w)) ELSE Throw
           rest == DecodeAddresses(p, at + WordLen, count - 1)
       IN IF first.threw \/ rest.threw THEN Throw
          ELSE Return(<<Get(first.value)>> \o Get(rest.value))

DecodeArray(p, headWord) ==
  LET offset == WordSmall(headWord)
      lenWord == IF offset.nan THEN None ELSE WordAt(p, 2 * offset.n)
      count == IF Present(lenWord) THEN WordSmall(Get(lenWord)) ELSE NaN
      items == IF count.nan \/ count.n * WordLen > Len(p) THEN Throw
               ELSE DecodeAddresses(p, 2 * offset.n + WordLen, count.n)
  IN IF items.threw THEN Throw ELSE Return(ArrayValue(Get(items.value)))

DecodeValue(type, p, i) ==
  LET w == WordAt(p, (i - 1) * WordLen)
  IN IF ~Present(w) THEN Throw
     ELSE IF type = <<"u", "i", "n", "t", "2", "5", "6">> THEN Return(BigIntValue(HexToDec(Get(w))))
     ELSE IF type = <<"a", "d", "d", "r", "e", "s", "s">> THEN DecodeAddress(Get(w))
     ELSE IF type = <<"a", "d", "d", "r", "e", "s", "s", "[", "]">> THEN DecodeArray(p, Get(w))
     ELSE Throw

RECURSIVE DecodeValues(_, _, _)
DecodeValues(inputs, p, i) ==
  IF i > Len(inputs) THEN Return(<<>>)
  ELSE LET first == DecodeValue(inputs[i], p, i)
           rest == DecodeValues(inputs, p, i + 1)
       IN IF first.threw \/ rest.threw THEN Throw
          ELSE Return(<<Get(first.value)>> \o Get(rest.value))

\* iface.decodeFunctionData(abiFragment.name, data): the data must be whole
\* bytes in hexadecimal and hold every declared input
decodeFunctionData(abiFragment, data) ==
  LET body == SubSeq(data, 3, Len(data))
  IN IF /\ Len(data) >= 10
        /\ SubSeq(data, 1, 2) = <<"0", "x">>
        /\ IsHex(body)
        /\ Len(body) % 2 = 0
     THEN DecodeValues(abiFragment.inputs, SubSeq(data, 11, Len(data)), 1)
     ELSE Throw

\* decodeParameters, but a decoding failure leaves it as an exception
decodeParameters_rethrows(functionName, data) ==
  LET abiFragment == createAbiFragment(functionName)
  IN IF ~Present(abiFragment) THEN Return(<<>>)
     ELSE decodeFunctionData(Get(abiFragment), data)

\* decodeParameters: the catch turns every failure into an empty list
decodeParameters(functionName, data) ==
  LET abiFragment == createAbiFragment(functionName)
      decoded == decodeFunctionData(Get(abiFragment), data)
  IN IF ~Present(abiFragment) THEN Return(<<>>)
     ELSE IF decoded.threw THEN Return(<<>>)
     ELSE decoded

ParsedTransaction(to, value, data, functionSignature, functionName, parameters, type) ==
  [to |-> to, value |-> value, data |-> data, functionSignature |-> functionSignature,
   functionName |-> functionName, parameters |-> parameters, type |-> type]

\* x || fallback for an optional string
OrElse(opt, fallback) == IF Truthy(opt) THEN Get(opt) ELSE fallback

\* TransactionParser.parseTransaction(txRequest); ethers.getBigInt(value).toString()
\* is the sequence of decimal digits
parseTransaction(txRequest) ==
  LET to == OrElse(txRequest.to, <<>>)
      value == OrElse(txRequest.value, <<"0", "x", "0">>)
      data == OrElse(txRequest.data, <<"0", "x">>)
      big == getBigIntOfString(value)
      valueInWei == IF value = <<"0", "x", "0">> THEN <<"0">> ELSE Get(big.value)
      parsed == ParsedTransaction(to, valueInWei, data, None, None, None, UNKNOWN)
      functionSignature == SubSeq(data, 3, 10)
      functionName == SIGNATURE_TO_FUNCTION(functionSignature)
      parameters == decodeParameters(Get(functionName), data)
  IN IF value # <<"0", "x", "0">> /\ big.threw THEN Throw
     ELSE IF data = <<"0", "x">> \/ Len(data) <= 2
     THEN Return([parsed EXCEPT !.type = TRANSFER])
     ELSE IF Len(data) < 10 THEN Return(parsed)
     ELSE IF ~Present(functionName)
     THEN Return([parsed EXCEPT !.functionSignature = Some(functionSignature)])
     ELSE Return([parsed EXCEPT
                    !.functionSignature = Some(functionSignature),
                    !.functionName = functionName,
                    !.type = determineTransactionType(Get(functionName)),
                    !.parameters = IF parameters.threw THEN None
                                   ELSE parameters.value])

\* TransactionParser.formatValue(valueWei) with the default 18 decimals
formatValue(valueWei) ==
  LET value == getBigIntOfString(valueWei)
  IN IF valueWei = <<"0">> THEN <<"0">>
     ELSE IF value.threw THEN valueWei
     ELSE formatUnits(Get(value.value), 18)

\* JavaScript truthiness of a value of a parameter list
TruthyValue(v) ==
  CASE v.k = "bigint" -> v.big # <<"0">>
    [] v.k = "string" -> v.str # <<>>
    [] OTHER -> TRUE

\* one assignment of extractAmounts: [threw, value] with value None when the
\* parameter is skipped
AmountOf(parameters, i) ==
  IF i <= Len(parameters) /\ TruthyValue(parameters[i]) /\ parameters[i].k # "array"
  THEN getBigInt(parameters[i])
  ELSE ReturnNull

NoAmounts == [amountIn |-> None, amountOut |-> None, amountMin |-> None]

\* TransactionParser.extractAmounts: an exception in the try block is caught
\* and the amounts assigned before it are kept
extractAmounts(parameters, functionName) ==
  LET first == AmountOf(parameters, 1)
      second == AmountOf(parameters, 2)
      secondKept == IF first.threw \/ second.threw THEN None ELSE second.value
  IN IF Len(parameters) = 0 THEN NoAmounts
     ELSE IF includes(functionName, <<"s", "w", "a", "p", "E", "x", "a", "c", "t">>)
     THEN [NoAmounts EXCEPT !.amountIn = first.value, !.amountMin = secondKept]
     ELSE IF includes(functionName, <<"s", "w", "a", "p", "T", "o", "k", "e", "n", "s", "F", "o", "r", "E", "x", "a", "c", "t">>)
     THEN [NoAmounts EXCEPT !.amountOut = first.value, !.amountIn = secondKept]
     ELSE IF includes(functionName, <<"t", "r", "a", "n", "s", "f", "e", "r">>) \/ includes(functionName, <<"a", "p", "p", "r", "o", "v", "e">>)
     THEN [NoAmounts EXCEPT !.amountIn = IF second.threw THEN None ELSE second.value]
     ELSE NoAmounts

(***************************************************************************)
(* Intent analyzer: utils/intentAnalyzer.ts                                *)
(*                                                                         *)
(* A sentence is its template and the texts put into it; of the outcome    *)
(* and the detail lines the templates are kept.                            *)
(***************************************************************************)
Sentence(text, args) == [text |-> text, args |-> args]

IntentAnalysis(intent, estimatedOutcome, confidence, details) ==
  [intent |-> intent, estimatedOutcome |-> estimatedOutcome, confidence |-> confidence,
   details |-> details]

\* formatAddress(address) of a string
formatAddress(address) ==
  IF address = <<>> \/ Len(address) < 10 THEN address
  ELSE SubSeq(address, 1, 6) \o <<".", ".", ".">>
         \o SubSeq(address, Len(address) - 3, Len(address))

knownDEXs ==
  <<[address |-> <<"0", "x", "7", "a", "2", "5", "0", "d", "5", "6", "3", "0", "b", "4", "c", "f", "5", "3", "9", "7", "3", "9", "d", "f", "2", "c", "5", "d", "a", "c", "b", "4", "c", "6", "5", "9", "f", "2", "4", "8", "8", "d">>, name |-> <<"U", "n", "i", "s", "w", "a", "p", " ", "V", "2">>],
    [address |-> <<"0", "x", "e", "5", "9", "2", "4", "2", "7", "a", "0", "a", "e", "c", "e", "9", "2", "d", "e", "3", "e", "d", "e", "e", "1", "f", "1", "8", "e", "0", "1", "5", "7", "c", "0", "5", "8", "6", "1", "5", "6", "4">>, name |-> <<"U", "n", "i", "s", "w", "a", "p", " ", "V", "3">>],
    [address |-> <<"0", "x", "d", "9", "e", "1", "c", "e", "1", "7", "f", "2", "6", "4", "1", "f", "2", "4", "a", "e", "8", "3", "6", "3", "7", "a", "b", "6", "6", "a", "2", "c", "c", "a", "9", "c", "3", "7", "8", "b", "9", "f">>, name |-> <<"S", "u", "s", "h", "i", "S", "w", "a", "p">>],
    [address |-> <<"0", "x", "1", "0", "e", "d", "4", "3", "c", "7", "1", "8", "7", "1", "4", "e", "b", "6", "3", "d", "5", "a", "a", "5", "7", "b", "7", "8", "b", "5", "4", "7", "0", "4", "e", "2", "5", "6", "0", "2", "4", "e">>, name |-> <<"P", "a", "n", "c", "a", "k", "e", "S", "w", "a", "p">>]>>

knownContracts ==
  <<[address |-> <<"0", "x", "7", "a", "2", "5", "0", "d", "5", "6", "3", "0", "b", "4", "c", "f", "5", "3", "9", "7", "3", "9", "d", "f", "2", "c", "5", "d", "a", "c", "b", "4", "c", "6", "5", "9", "f", "2", "4", "8", "8", "d">>,
     name |-> <<"U", "n", "i", "s", "w", "a", "p", " ", "V", "2", " ", "R", "o", "u", "t", "e", "r">>],
    [address |-> <<"0", "x", "e", "5", "9", "2", "4", "2", "7", "a", "0", "a", "e", "c", "e", "9", "2", "d", "e", "3", "e", "d", "e", "e", "1", "f", "1", "8", "e", "0", "1", "5", "7", "c", "0", "5", "8", "6", "1", "5", "6", "4">>,
     name |-> <<"U", "n", "i", "s", "w", "a", "p", " ", "V", "3", " ", "R", "o", "u", "t", "e", "r">>],
    [address |-> <<"0", "x", "d", "9", "e", "1", "c", "e", "1", "7", "f", "2", "6", "4", "1", "f", "2", "4", "a", "e", "8", "3", "6", "3", "7", "a", "b", "6", "6", "a", "2", "c", "c", "a", "9", "c", "3", "7", "8", "b", "9", "f">>,
     name |-> <<"S", "u", "s", "h", "i", "S", "w", "a", "p", " ", "R", "o", "u", "t", "e", "r">>],
    [address |-> <<"0", "x", "a", "0", "b", "8", "6", "a", "3", "3", "e", "6", "4", "4", "1", "b", "8", "c", "1", "8", "d", "9", "0", "4", "c", "4", "c", "0", "b", "5", "c", "0", "c", "8", "c", "7", "c", "5", "b", "0", "c", "8">>, name |-> <<"U", "S", "D", "C">>],
    [address |-> <<"0", "x", "d", "a", "c", "1", "7", "f", "9", "5", "8", "d", "2", "e", "e", "5", "2", "3", "a", "2", "2", "0", "6", "2", "0", "6", "9", "9", "4", "5", "9", "7", "c", "1", "3", "d", "8", "3", "1", "e", "c", "7">>, name |-> <<"U", "S", "D", "T">>],
    [address |-> <<"0", "x", "6", "b", "1", "7", "5", "4", "7", "4", "e", "8", "9", "0", "9", "4", "c", "4", "4", "d", "a", "9", "8", "b", "9", "5", "4", "e", "e", "d", "e", "a", "c", "4", "9", "5", "2", "7", "1", "d", "0", "f">>, name |-> <<"D", "A", "I">>],
    [address |-> <<"0", "x", "2", "2", "6", "0", "f", "a", "c", "5", "e", "5", "5", "4", "2", "a", "7", "7", "3", "a", "a", "4", "4", "f", "b", "c", "f", "e", "d", "f", "7", "c", "1", "9", "3", "b", "c", "2", "c", "5", "9", "9">>, name |-> <<"W", "B", "T", "C">>],
    [address |-> <<"0", "x", "0", "0", "0", "0", "0", "0", "0", "0", "0", "0", "0", "0", "0", "0", "0", "0", "0", "0", "0", "0", "0", "0", "0", "0", "0", "0", "0", "0", "0", "0", "0", "0", "0", "0", "0", "0", "0", "0", "0", "0">>,
     name |-> <<"N", "u", "l", "l", " ", "A", "d", "d", "r", "e", "s", "s">>]>>

\* table[address.toLowerCase()]
Lookup(table, address) ==
  LET hits == {i \in 1..Len(table) : table[i].address = toLowerCase(address)}
  IN IF hits = {} THEN None ELSE Some(table[CHOOSE i \in hits : TRUE].name)

identifyDEX(address) == OrElse(Lookup(knownDEXs, address), <<"U", "n", "k", "n", "o", "w", "n", " ", "D", "E", "X">>)

identifyContract(address) ==
  LET known == Lookup(knownContracts, address)
  IN IF Truthy(known) THEN Get(known) ELSE formatAddress(address)

\* 10^n as decimal digits
PowerOfTen(n) == <<"1">> \o Zeros(n)

\* formatTokenAmount(amount): the branch taken and the text it renders (the
\* digits before rounding and scaling for the toFixed branches)
formatTokenAmount(amount) ==
  LET big == getBigIntOfString(amount)
      bigAmount == Get(big.value)
      formatted == formatUnits(bigAmount, 18)
  IN IF big.threw THEN [form |-> "raw", text |-> amount]
     ELSE IF bigAmount # PowerOfTen(24) /\ BigGte(bigAmount, PowerOfTen(24))
     THEN [form |-> "truncated", text |-> SubSeq(bigAmount, 1, 6) \o <<".", ".", ".">>]
     ELSE IF bigAmount = <<"0">> THEN [form |-> "zero", text |-> <<"0">>]
     ELSE IF ~BigGte(bigAmount, PowerOfTen(12))
     THEN [form |-> "tiny", text |-> <<"<", " ", "0", ".", "0", "0", "0", "0", "0", "1">>]
     ELSE IF ~BigGte(bigAmount, PowerOfTen(18))
     THEN [form |-> "toFixed(6)", text |-> formatted]
     ELSE IF ~BigGte(bigAmount, PowerOfTen(21))
     THEN [form |-> "toFixed(4)", text |-> formatted]
     ELSE IF ~BigGte(bigAmount, PowerOfTen(24))
     THEN [form |-> "K", text |-> formatted]
     ELSE [form |-> "M", text |-> formatted]

Plain(text) == [form |-> "plain", text |-> text]

\* absent, or an empty string
Falsy(opt) == ~Truthy(opt)

\* analyzeUnknown, but a transaction with call data keeps the literal intent
\* whatever its value
analyzeUnknown_literalWithData(parsedTx) ==
  LET contractName == identifyContract(parsedTx.to)
      hasValue == parsedTx.value # <<"0">>
      hasData == /\ parsedTx.data # <<>>
                 /\ parsedTx.data # <<"0", "x">>
                 /\ Len(parsedTx.data) > 2
      tail == <<"Contract: {0} ({1})",
                "CAUTION: Unknown transaction - verify carefully before proceeding">>
  IN IF hasValue /\ ~hasData
     THEN IntentAnalysis(
            Sentence("Send {0} ETH to {1}",
                     <<Plain(formatValue(parsedTx.value)), Plain(contractName)>>),
            "{0} ETH will be sent to the contract", "low",
            <<"Amount: {0} ETH">> \o tail)
     ELSE IntentAnalysis(
            Sentence("Unknown transaction type", <<>>),
            "The outcome of this transaction is unclear", "low", tail)

analyzeUnknown(parsedTx) ==
  LET contractName == identifyContract(parsedTx.to)
      hasValue == parsedTx.value # <<"0">>
      hasData == /\ parsedTx.data # <<>>
                 /\ parsedTx.data # <<"0", "x">>
                 /\ Len(parsedTx.data) > 2
      ethAmount == formatValue(parsedTx.value)
      signatureLine == IF Truthy(parsedTx.functionSignature)
                       THEN <<"Function signature: 0x{0}">> ELSE <<>>
      tail == <<"Contract: {0} ({1})",
                "CAUTION: Unknown transaction - verify carefully before proceeding">>
  IN IF hasValue /\ ~hasData
     THEN IntentAnalysis(
            Sentence("Send {0} ETH to {1}", <<Plain(ethAmount), Plain(contractName)>>),
            "{0} ETH will be sent to the contract", "low",
            <<"Amount: {0} ETH">> \o tail)
     ELSE IF hasData /\ hasValue
     THEN IntentAnalysis(
            Sentence("Send {0} ETH to {1}", <<Plain(ethAmount), Plain(contractName)>>),
            "{0} ETH will be sent to the contract", "low",
            <<"ETH sent: {0}">> \o signatureLine \o tail)
     ELSE IF hasData
     THEN IntentAnalysis(
            Sentence("Unknown transaction type", <<>>),
            "This will execute a function on the contract", "low",
            signatureLine \o tail)
     ELSE IntentAnalysis(
            Sentence("Unknown transaction type", <<>>),
            "The outcome of this transaction is unclear", "low", tail)

\* analyzeTransfer, but a token transfer is not checked for two parameters:
\* ethers.getBigInt(undefined) throws
analyzeTransfer_noLengthCheck(parsedTx) ==
  LET functionName == parsedTx.functionName
      parameters == Get(parsedTx.parameters)
      ethAmount == formatValue(parsedTx.value)
  IN IF Falsy(functionName)
     THEN Return(IntentAnalysis(
            Sentence("Send {0} ETH to {1}",
                     <<Plain(ethAmount), Plain(formatAddress(parsedTx.to))>>),
            "{0} ETH will be transferred from your wallet", "high",
            <<"Recipient: {0}", "Amount: {0} ETH", "This is a simple ETH transfer">>))
     ELSE IF /\ Get(functionName) = <<"t", "r", "a", "n", "s", "f", "e", "r", "(", "a", "d", "d", "r", "e", "s", "s", ",", "u", "i", "n", "t", "2", "5", "6", ")">>
             /\ Present(parsedTx.parameters)
     THEN IF Len(parameters) < 2 \/ getBigInt(parameters[2]).threw THEN Throw
          ELSE Return(IntentAnalysis(
                 Sentence("Send tokens to {0}",
                          <<Plain(formatAddress(parameters[1].str))>>),
                 "Tokens will be transferred from your wallet", "high",
                 <<"Token contract: {0}", "Recipient: {0}", "Amount: {0} tokens",
                   "This transfers tokens you own to another address">>))
     ELSE IF /\ Get(functionName) = <<"t", "r", "a", "n", "s", "f", "e", "r", "F", "r", "o", "m", "(", "a", "d", "d", "r", "e", "s", "s", ",", "a", "d", "d", "r", "e", "s", "s", ",", "u", "i", "n", "t", "2", "5", "6", ")">>
             /\ Present(parsedTx.parameters)
             /\ Len(parameters) >= 3
     THEN IF getBigInt(parameters[3]).threw THEN Throw
          ELSE Return(IntentAnalysis(
                 Sentence("Transfer tokens from {0} to {1}",
                          <<Plain(formatAddress(parameters[1].str)),
                            Plain(formatAddress(parameters[2].str))>>),
                 "Tokens will be moved between addresses (requires approval)", "medium",
                 <<"From: {0}", "To: {0}", "Amount: {0} tokens",
                   "This moves tokens between addresses (typically used by contracts)">>))
     ELSE Return(analyzeUnknown(parsedTx))

analyzeTransfer(parsedTx) ==
  LET functionName == parsedTx.functionName
      parameters == Get(parsedTx.parameters)
      ethAmount == formatValue(parsedTx.value)
  IN IF Falsy(functionName)
     THEN Return(IntentAnalysis(
            Sentence("Send {0} ETH to {1}",
                     <<Plain(ethAmount), Plain(formatAddress(parsedTx.to))>>),
            "{0} ETH will be transferred from your wallet", "high",
            <<"Recipient: {0}", "Amount: {0} ETH", "This is a simple ETH transfer">>))
     ELSE IF /\ Get(functionName) = <<"t", "r", "a", "n", "s", "f", "e", "r", "(", "a", "d", "d", "r", "e", "s", "s", ",", "u", "i", "n", "t", "2", "5", "6", ")">>
             /\ Present(parsedTx.parameters)
             /\ Len(parameters) >= 2
     THEN IF getBigInt(parameters[2]).threw THEN Throw
          ELSE Return(IntentAnalysis(
                 Sentence("Send tokens to {0}",
                          <<Plain(formatAddress(parameters[1].str))>>),
                 "Tokens will be transferred from your wallet", "high",
                 <<"Token contract: {0}", "Recipient: {0}", "Amount: {0} tokens",
                   "This transfers tokens you own to another address">>))
     ELSE IF /\ Get(functionName) = <<"t", "r", "a", "n", "s", "f", "e", "r", "F", "r", "o", "m", "(", "a", "d", "d", "r", "e", "s", "s", ",", "a", "d", "d", "r", "e", "s", "s", ",", "u", "i", "n", "t", "2", "5", "6", ")">>
             /\ Present(parsedTx.parameters)
             /\ Len(parameters) >= 3
     THEN IF getBigInt(parameters[3]).threw THEN Throw
          ELSE Return(IntentAnalysis(
                 Sentence("Transfer tokens from {0} to {1}",
                          <<Plain(formatAddress(parameters[1].str)),
                            Plain(formatAddress(parameters[2].str))>>),
                 "Tokens will be moved between addresses (requires approval)", "medium",
                 <<"From: {0}", "To: {0}", "Amount: {0} tokens",
                   "This moves tokens between addresses (typically used by contracts)">>))
     ELSE Return(analyzeUnknown(parsedTx))

\* amounts.x ? format(amounts.x) : 'unknown'
AmountText(amount, asEth) ==
  IF ~Truthy(amount) THEN Plain(<<"u", "n", "k", "n", "o", "w", "n">>)
  ELSE IF asEth THEN Plain(formatValue(Get(amount)))
  ELSE formatTokenAmount(Get(amount))

analyzeSwap(parsedTx) ==
  LET functionName == Get(parsedTx.functionName)
      parameters == Get(parsedTx.parameters)
      amounts == extractAmounts(parameters, functionName)
      dexName == Plain(identifyDEX(parsedTx.to))
  IN IF Falsy(parsedTx.functionName) \/ ~Present(parsedTx.parameters)
     THEN analyzeUnknown(parsedTx)
     ELSE IF includes(functionName, <<"s", "w", "a", "p", "E", "x", "a", "c", "t", "T", "o", "k", "e", "n", "s", "F", "o", "r", "T", "o", "k", "e", "n", "s">>)
     THEN IntentAnalysis(
            Sentence("Swap {0} tokens for other tokens on {1}",
                     <<AmountText(amounts.amountIn, FALSE), dexName>>),
            "You will receive at least {0} tokens", "high",
            <<"DEX: {0}", "Input amount: {0} tokens", "Minimum output: {0} tokens",
              "Token path: {0} tokens", "You are trading one token for another">>)
     ELSE IF includes(functionName, <<"s", "w", "a", "p", "E", "x", "a", "c", "t", "E", "T", "H", "F", "o", "r", "T", "o", "k", "e", "n", "s">>)
     THEN IntentAnalysis(
            Sentence("Swap {0} ETH for tokens on {1}",
                     <<AmountText(amounts.amountIn, TRUE), dexName>>),
            "You will receive at least {0} tokens", "high",
            <<"DEX: {0}", "ETH amount: {0}", "Minimum tokens: {0}",
              "You are buying tokens with ETH">>)
     ELSE IF includes(functionName, <<"s", "w", "a", "p", "E", "x", "a", "c", "t", "T", "o", "k", "e", "n", "s", "F", "o", "r", "E", "T", "H">>)
     THEN IntentAnalysis(
            Sentence("Swap {0} tokens for ETH on {1}",
                     <<AmountText(amounts.amountIn, FALSE), dexName>>),
            "You will receive at least {0} ETH", "high",
            <<"DEX: {0}", "Token amount: {0}", "Minimum ETH: {0}",
              "You are selling tokens for ETH">>)
     ELSE IntentAnalysis(
            Sentence("Perform token swap on {0}", <<dexName>>),
            "Tokens will be exchanged according to current market rates", "medium",
            <<"DEX: {0}", "Function: {0}", "This is a token swap transaction">>)

\* ethers.getBigInt('0xffffffffffffffffffffffffffffffffffffffffffffffffffffffffffffffff')
MaxUint256 == HexToDec([i \in 1..WordLen |-> "f"])

\* analyzeApproval, but unlimited only for an amount above 2^256 - 1
analyzeApproval_strictlyGreater(parsedTx) ==
  LET parameters == Get(parsedTx.parameters)
      amount == getBigInt(parameters[2])
      spenderName == identifyContract(parameters[1].str)
      isUnlimited == BigGte(Get(amount.value), MaxUint256) /\ Get(amount.value) # MaxUint256
      amountText == IF isUnlimited THEN Plain(<<"u", "n", "l", "i", "m", "i", "t", "e", "d">>)
                    ELSE formatTokenAmount(Get(amount.value))
  IN IF ~Present(parsedTx.parameters) \/ Len(parameters) < 2
     THEN Return(analyzeUnknown(parsedTx))
     ELSE IF amount.threw THEN Throw
     ELSE Return(IntentAnalysis(
            Sentence("Allow {0} to spend {1} of your tokens",
                     <<Plain(spenderName), amountText>>),
            "{0} will be able to transfer your tokens on your behalf", "high",
            <<"Token contract: {0}", "Spender: {0} ({1})", "Amount: {0} tokens",
              IF isUnlimited THEN "WARNING: This grants unlimited spending permission"
              ELSE "This grants limited spending permission",
              "You can revoke this permission later by setting approval to 0">>))

analyzeApproval(parsedTx) ==
  LET parameters == Get(parsedTx.parameters)
      amount == getBigInt(parameters[2])
      spenderName == identifyContract(parameters[1].str)
      isUnlimited == BigGte(Get(amount.value), MaxUint256)
      amountText == IF isUnlimited THEN Plain(<<"u", "n", "l", "i", "m", "i", "t", "e", "d">>)
                    ELSE formatTokenAmount(Get(amount.value))
  IN IF ~Present(parsedTx.parameters) \/ Len(parameters) < 2
     THEN Return(analyzeUnknown(parsedTx))
     ELSE IF amount.threw THEN Throw
     ELSE Return(IntentAnalysis(
            Sentence("Allow {0} to spend {1} of your tokens",
                     <<Plain(spenderName), amountText>>),
            "{0} will be able to transfer your tokens on your behalf", "high",
            <<"Token contract: {0}", "Spender: {0} ({1})", "Amount: {0} tokens",
              IF isUnlimited THEN "WARNING: This grants unlimited spending permission"
              ELSE "This grants limited spending permission",
              "You can revoke this permission later by setting approval to 0">>))

analyzeLiquidity(parsedTx) ==
  LET functionName == Get(parsedTx.functionName)
      dexName == Plain(identifyDEX(parsedTx.to))
  IN IF Falsy(parsedTx.functionName) \/ ~Present(parsedTx.parameters)
     THEN analyzeUnknown(parsedTx)
     ELSE IF includes(functionName, <<"a", "d", "d", "L", "i", "q", "u", "i", "d", "i", "t", "y">>)
     THEN IF includes(functionName, <<"E", "T", "H">>)
          THEN IntentAnalysis(
                 Sentence("Add liquidity to ETH/Token pool on {0}", <<dexName>>),
                 "You will provide ETH and tokens to earn trading fees", "high",
                 <<"DEX: {0}", "You are becoming a liquidity provider",
                   "You will receive LP tokens representing your share",
                   "You will earn fees from trades in this pool">>)
          ELSE IntentAnalysis(
                 Sentence("Add liquidity to token pair on {0}", <<dexName>>),
                 "You will provide two tokens to earn trading fees", "high",
                 <<"DEX: {0}", "You are becoming a liquidity provider",
                   "You will receive LP tokens representing your share",
                   "You will earn fees from trades in this pool">>)
     ELSE IF includes(functionName, <<"r", "e", "m", "o", "v", "e", "L", "i", "q", "u", "i", "d", "i", "t", "y">>)
     THEN IntentAnalysis(
            Sentence("Remove liquidity from {0} pool", <<dexName>>),
            "You will receive back your tokens plus earned fees", "high",
            <<"DEX: {0}", "You are withdrawing your liquidity",
              "Your LP tokens will be burned", "You will receive the underlying tokens">>)
     ELSE analyzeUnknown(parsedTx)

\* IntentAnalyzer.analyzeIntent(parsedTx): the analysis, or an exception
analyzeIntent(parsedTx) ==
  CASE parsedTx.type = TRANSFER -> analyzeTransfer(parsedTx)
    [] parsedTx.type = SWAP -> Return(analyzeSwap(parsedTx))
    [] parsedTx.type = APPROVAL -> analyzeApproval(parsedTx)
    [] parsedTx.type = LIQUIDITY -> Return(analyzeLiquidity(parsedTx))
    [] OTHER -> Return(analyzeUnknown(parsedTx))

\* ---- one run of the pipeline: parseTransaction, then analyzeIntent ----
TransactionRequest(to, value, data) == [to |-> to, value |-> value, data |-> data]

NoRequest == TransactionRequest(None, None, None)

ParseIdle ==
  [pc |-> "idle", handBuilt |-> FALSE, txRequest |-> NoRequest, parsed |-> ReturnNull,
   analysis |-> ReturnNull]

\* a caller holds a request
ParseCall(txRequest) == [ParseIdle EXCEPT !.pc = "request", !.txRequest = txRequest]

\* a caller holds a ParsedTransaction it built itself
AnalyzeCall(parsedTx) ==
  [ParseIdle EXCEPT !.pc = "parsed", !.handBuilt = TRUE, !.parsed = Return(parsedTx)]

\* const parsedTx = TransactionParser.parseTransaction(transaction)
Parse ==
  /\ parse.pc = "request"
  /\ LET parsed == parseTransaction(parse.txRequest)
     IN parse' = [parse EXCEPT !.parsed = parsed,
                               !.pc = IF parsed.threw THEN "failed" ELSE "parsed"]
  /\ UNCHANGED <<ivars, rvars, avars, lvars, dvars>>

\* const intentAnalysis = IntentAnalyzer.analyzeIntent(parsedTx)
Analyze ==
  /\ parse.pc = "parsed"
  /\ LET analysis == analyzeIntent(Get(parse.parsed.value))
     IN parse' = [parse EXCEPT !.analysis = analysis,
                               !.pc = IF analysis.threw THEN "failed" ELSE "done"]
  /\ UNCHANGED <<ivars, rvars, avars, lvars, dvars>>

\* ---- the requests and transactions the pipeline is run on ----
PadWord(hex) == Zeros(WordLen - Len(hex)) \o hex
AddressWord(address) == PadWord(toLowerCase(SubSeq(address, 3, Len(address))))
RECURSIVE Concat(_)
Concat(words) == IF Len(words) = 0 THEN <<>> ELSE Head(words) \o Concat(Tail(words))
CallData(selector, words) == <<"0", "x">> \o selector \o Concat(words)

OneEther == <<"d", "e", "0", "b", "6", "b", "3", "a", "7", "6", "4", "0", "0", "0", "0">>
AllOnes == [i \in 1..WordLen |-> "f"]

\* amountIn, amountOutMin, path (at 0xa0), to, deadline, then the two tokens
SwapWords ==
  <<PadWord(OneEther), PadWord(<<"6", "4">>), PadWord(<<"a", "0">>), AddressWord(AddrWallet),
    PadWord(<<"f", "f", "f", "f">>), PadWord(<<"2">>), AddressWord(AddrToken), AddressWord(AddrOther)>>

\* amountOutMin, path (at 0x80), to, deadline, then the two tokens
SwapETHWords ==
  <<PadWord(<<"6", "4">>), PadWord(<<"8", "0">>), AddressWord(AddrWallet), PadWord(<<"f", "f", "f", "f">>),
    PadWord(<<"2">>), AddressWord(AddrToken), AddressWord(AddrOther)>>

DataSamples ==
  {None, Some(<<>>), Some(<<"0", "x">>), Some(<<"0", "x", "1">>), Some(<<"0", "x", "a", "9", "0", "5", "9", "c">>), Some(<<"0", "x", "1", "2", "3", "4", "5", "6", "7", "8">>),
   Some(<<"0", "x", "a", "9", "0", "5", "9", "c", "b", "b">>),
   Some(CallData(<<"a", "9", "0", "5", "9", "c", "b", "b">>, <<AddressWord(AddrOther), PadWord(OneEther)>>)),
   Some(CallData(<<"a", "9", "0", "5", "9", "c", "b", "b">>, <<AddressWord(AddrOther), PadWord(<<"0">>)>>)),
   Some(CallData(<<"a", "9", "0", "5", "9", "c", "b", "b">>, <<AllOnes, PadWord(OneEther)>>)),
   Some(CallData(<<"A", "9", "0", "5", "9", "C", "B", "B">>, <<AddressWord(AddrOther), PadWord(OneEther)>>)),
   Some(CallData(<<"2", "3", "b", "8", "7", "2", "d", "d">>,
                 <<AddressWord(AddrWallet), AddressWord(AddrOther), PadWord(<<"6", "4">>)>>)),
   Some(CallData(<<"0", "9", "5", "e", "a", "7", "b", "3">>, <<AddressWord(uniswapV2Router), AllOnes>>)),
   Some(CallData(<<"0", "9", "5", "e", "a", "7", "b", "3">>, <<AddressWord(uniswapV2Router), PadWord(OneEther)>>)),
   Some(CallData(<<"0", "9", "5", "e", "a", "7", "b", "3">>, <<AddressWord(uniswapV2Router)>>)),
   Some(CallData(<<"0", "9", "5", "e", "a", "7", "b", "3">>,
                 <<AddressWord(uniswapV2Router), SubSeq(AllOnes, 2, WordLen) \o <<"e">>>>)),
   Some(CallData(<<"3", "8", "e", "d", "1", "7", "3", "9">>, SwapWords)),
   Some(CallData(<<"3", "8", "e", "d", "1", "7", "3", "9">>, SwapWords) \o <<"0">>),
   Some(<<"0", "x", "3", "8", "e", "d", "1", "7", "3", "9">>),
   Some(CallData(<<"3", "8", "e", "d", "1", "7", "3", "9">>, <<PadWord(OneEther), PadWord(<<"6", "4">>)>>)),
   Some(CallData(<<"8", "8", "0", "3", "d", "b", "e", "e">>, SwapWords)),
   Some(CallData(<<"7", "f", "f", "3", "6", "a", "b", "5">>, SwapETHWords)),
   Some(<<"0", "x", "f", "3", "0", "5", "d", "7", "1", "9">>),
   Some(<<"0", "x", "b", "a", "a", "2", "a", "b", "d", "e">>)}

ValueSamples ==
  {None, Some(<<>>), Some(<<"0", "x", "0">>), Some(<<"0", "x", "0", "0">>), Some(<<"0", "x", "1">>), Some(<<"0", "x", "1", "6", "3", "4", "5", "7", "8", "5", "d", "8", "a", "0", "0", "0", "0">>),
   Some(<<"z", "z">>)}

ToSamples == {None, Some(uniswapV2Router), Some(AddrOther)}

FunctionName(i) == Some(FUNCTION_SIGNATURES[i].func)

SomeAddress == StringValue(AddrOther)
SomeAmount == StringValue(<<"1", "0", "0", "0", "0", "0", "0", "0", "0", "0", "0", "0", "0", "0", "0", "0", "0", "0", "0">>)
MaxAmount ==
  StringValue(<<"1", "1", "5", "7", "9", "2", "0", "8", "9", "2", "3", "7", "3", "1", "6", "1", "9", "5", "4", "2", "3", "5", "7", "0", "9", "8", "5", "0", "0", "8", "6", "8", "7", "9", "0", "7", "8", "5", "3", "2", "6", "9", "9", "8", "4", "6", "6", "5", "6", "4", "0", "5", "6", "4", "0", "3", "9", "4", "5", "7", "5", "8", "4", "0", "0", "7", "9", "1", "3", "1", "2", "9", "6", "3", "9", "9", "3", "5">>)
SmallAmount == BigIntValue(<<"1", "0", "0", "0">>)
ZeroAmount == BigIntValue(<<"0">>)
AlmostMaxAmount == StringValue(<<"1", "1", "5", "7", "9", "2", "0", "8", "9", "2", "3", "7", "3", "1", "6", "1", "9", "5", "4", "2", "3", "5", "7", "0", "9", "8", "5", "0", "0", "8", "6", "8", "7", "9", "0", "7", "8", "5", "3", "2", "6", "9", "9", "8", "4", "6", "6", "5", "6", "4", "0", "5", "6", "4", "0", "3", "9", "4", "5", "7", "5", "8", "4", "0", "0", "7", "9", "1", "3", "1", "2", "9", "6", "3", "9", "9", "3", "4">>)
OverMaxAmount == StringValue(<<"1", "1", "5", "7", "9", "2", "0", "8", "9", "2", "3", "7", "3", "1", "6", "1", "9", "5", "4", "2", "3", "5", "7", "0", "9", "8", "5", "0", "0", "8", "6", "8", "7", "9", "0", "7", "8", "5", "3", "2", "6", "9", "9", "8", "4", "6", "6", "5", "6", "4", "0", "5", "6", "4", "0", "3", "9", "4", "5", "7", "5", "8", "4", "0", "0", "7", "9", "1", "3", "1", "2", "9", "6", "3", "9", "9", "3", "6">>)
NoNumber == StringValue(<<"a", "b", "c">>)
TokenPath == ArrayValue(<<StringValue(AddrToken), StringValue(AddrOther)>>)

\* per kind: the function names and the parameter lists a caller supplies
HandBuiltCases ==
  <<[type |-> TRANSFER,
     names |-> <<None, FunctionName(1), FunctionName(2)>>,
     lists |-> <<None, Some(<<>>), Some(<<SomeAddress>>), Some(<<SomeAddress, SomeAmount>>),
                 Some(<<SomeAddress, SomeAddress, SomeAmount>>),
                 Some(<<SomeAddress, NoNumber>>)>>],
    [type |-> APPROVAL,
     names |-> <<None, FunctionName(3)>>,
     lists |-> <<None, Some(<<>>), Some(<<SomeAddress>>), Some(<<SomeAddress, SomeAmount>>),
                 Some(<<SomeAddress, MaxAmount>>), Some(<<SomeAddress, SmallAmount>>),
                 Some(<<SomeAddress, ZeroAmount>>), Some(<<SomeAddress, NoNumber>>),
                 Some(<<SomeAddress, AlmostMaxAmount>>), Some(<<SomeAddress, OverMaxAmount>>)>>],
    [type |-> SWAP,
     names |-> <<None, FunctionName(4), FunctionName(5), FunctionName(6), FunctionName(8)>>,
     lists |-> <<None, Some(<<>>), Some(<<SomeAmount>>), Some(<<SomeAmount, SomeAmount>>),
                 Some(<<SomeAmount, SomeAmount, TokenPath, SomeAddress, SmallAmount>>),
                 Some(<<ZeroAmount, ZeroAmount, TokenPath, SomeAddress, SmallAmount>>),
                 Some(<<NoNumber, SomeAmount>>)>>],
    [type |-> LIQUIDITY,
     names |-> <<None, FunctionName(10), FunctionName(11), FunctionName(12),
                 FunctionName(3)>>,
     lists |-> <<None, Some(<<>>)>>],
    [type |-> UNKNOWN,
     names |-> <<None>>,
     lists |-> <<None>>]>>

HandBuiltValues == {<<"0">>, <<"1", "0", "0", "0", "0", "0", "0", "0", "0", "0", "0", "0", "0", "0", "0", "0", "0", "0", "0">>}
HandBuiltData == {<<"0", "x">>, <<"0", "x", "1", "2", "3", "4", "5", "6", "7", "8">>}

(***************************************************************************)
(* Properties of the interceptor                                           *)
(***************************************************************************)
Intercepted(req) == req.args.method = "eth_sendTransaction" /\ req.args.params = "tx"

\* C1: when the user rejects an intercepted eth_sendTransaction (the pending
\* promise is resolved with false), the original wallet request is never
\* invoked for that transaction.
C1_RejectedNeverForwarded ==
  \A r \in ReqIds : requests[r].settled = "false" => requests[r].forwarded = <<>>

\* C2: the interceptor never withholds a transaction on its own. No request is
\* passed to the original wallet request more than once; an eth_sendTransaction
\* that the user approved, or whose analysis failed, has been passed to it
\* exactly once, unchanged, when its handler returns; a request with any other
\* method is passed on unchanged as soon as it is made and never becomes a
\* pending review.
C2_NeverWithheld ==
  \A r \in ReqIds :
    LET req == requests[r]
    IN /\ Len(req.forwarded) <= 1
       /\ (req.pc = "done" /\ Intercepted(req)
             /\ (req.settled = "true" \/ req.analysisFailed))
            => req.forwarded = <<req.args>>
       /\ (req.pc # "idle" /\ req.args.method # "eth_sendTransaction")
            => /\ req.forwarded = <<req.args>>
               /\ ~req.reviewed
               /\ pendingTransaction # r

\* an approved transaction, a transaction whose analysis failed, or a request of
\* another method has gone through, and one of them was approved by the user
C2_Witness ==
  /\ \E r \in ReqIds : /\ requests[r].pc = "done"
                       /\ requests[r].settled = "true"
                       /\ requests[r].forwarded = <<requests[r].args>>
  /\ \E r \in ReqIds : /\ requests[r].pc = "done"
                       /\ \/ requests[r].analysisFailed
                          \/ requests[r].args.method # "eth_sendTransaction"

(***************************************************************************)
(* Properties of the risk indicator engine                                 *)
(***************************************************************************)
RiskDone == risk.pc = "done"
Result == Get(risk.result)

Messages(list) == {list[i].message : i \in 1..Len(list)}

\* the indicators of one type in a list
OfType(list, type) == {i \in 1..Len(list) : list[i].type = type}

\* the request was rejected or its body was no JSON
Failed(resp) == resp.kind \in {"reject", "badjson"}

\* call data is present: a string longer than two characters
CallDataPresent == Present(risk.transactionData) /\ Len(Get(risk.transactionData)) > 2

\* a token address different from the recipient is supplied
DistinctToken ==
  /\ Present(risk.tokenAddress)
  /\ Len(Get(risk.tokenAddress)) > 0
  /\ Get(risk.tokenAddress) # risk.recipientAddress

\* the value is supplied and is a number
NumericValue ==
  /\ Present(risk.valueInEth)
  /\ Len(Get(risk.valueInEth)) > 0
  /\ ~parseFloat(Get(risk.valueInEth)).nan

ValueMilli == parseFloat(Get(risk.valueInEth)).n

\* C3 as stated: with call data present and a recipient without code, the
\* result is exactly the one warning 'Transaction data sent to non-contract
\* address', whatever tokenAddress and value are.
C3_OnlyNonContractWarning ==
  (RiskDone /\ CallDataPresent /\ risk.contractLookup = "noContract")
    => /\ Len(Result) = 1
       /\ Result[1].message = "Transaction data sent to non-contract address"

\* C3 amended: with call data present and a recipient without code, the list
\* starts with the warning 'Transaction data sent to non-contract address', no
\* verification query is made and no other contract indicator is added; the
\* token-age, liquidity and value checks still run, so the warning is the only
\* indicator exactly when no distinct token address is supplied and the value
\* is absent, not a number or at most 1.
C3_NonContractWarningFirst ==
  (RiskDone /\ CallDataPresent /\ risk.contractLookup = "noContract")
    => /\ Len(Result) >= 1
       /\ Result[1].message = "Transaction data sent to non-contract address"
       /\ Result[1].severity = "warning"
       /\ OfType(Result, "UNVERIFIED_CONTRACT") = {1}
       /\ risk.verifyResp = NoResp
       /\ (Len(Result) = 1) <=> (~DistinctToken /\ ~(NumericValue /\ ValueMilli > 1000))

\* data sent to an address without code, with a token address and a high value:
\* the warning is followed by the other checks' indicators
C3_Witness ==
  /\ RiskDone /\ CallDataPresent /\ risk.contractLookup = "noContract"
  /\ Len(Result) = 4
  /\ Result[1].message = "Transaction data sent to non-contract address"

\* the responses that count as a failed fetch, per check
CodeFetchFailed == Failed(risk.codeResp)
VerifyFetchFailed ==
  \/ Failed(risk.verifyResp)
  \/ /\ risk.verifyResp.kind = "json"
     /\ \/ risk.verifyResp.data.status # "1"
        \/ ~Present(risk.verifyResp.data.result)
        \/ Get(risk.verifyResp.data.result) = <<>>
TokenAgeFetchFailed ==
  \/ Failed(risk.blockResp)
  \/ risk.blockResp.kind = "json" /\ risk.blockResp.data.status # "1"
  \/ Failed(risk.txResp)
  \/ /\ risk.txResp.kind = "json"
     /\ \/ risk.txResp.data.status # "1"
        \/ ~Present(risk.txResp.data.result)
        \/ Get(risk.txResp.data.result) = <<>>
DexFetchFailed ==
  \/ Failed(risk.dexResp)
  \/ /\ risk.dexResp.kind = "json"
     /\ \/ risk.dexResp.data.status # "1"
        \/ ~Present(risk.dexResp.data.result)
        \/ Get(risk.dexResp.data.result) = <<>>

UnableMessages ==
  {"Unable to verify contract status", "Unable to determine token age",
   "Unable to verify DEX pool presence"}

\* every indicator of the type is a warning that reports the uncertainty
ReportsUncertainty(type) ==
  /\ OfType(Result, type) # {}
  /\ \A i \in OfType(Result, type) :
       Result[i].severity = "warning" /\ Result[i].message \in UnableMessages

Whitelisted(address) ==
  \E i \in 1..Len(KNOWN_PROTOCOL_WHITELIST) :
    KNOWN_PROTOCOL_WHITELIST[i].address = toLowerCase(address)

ReportedUnverified ==
  /\ risk.verifyResp.kind = "json"
  /\ risk.verifyResp.data.status = "1"
  /\ Present(risk.verifyResp.data.result)
  /\ Len(Get(risk.verifyResp.data.result)) > 0
  /\ \A i \in 1..Len(Get(Get(risk.verifyResp.data.result)[1].SourceCode)) :
       Get(Get(risk.verifyResp.data.result)[1].SourceCode)[i] = " "

\* C5: the known-protocol whitelist is only a fallback for a failed or
\* inconclusive query: when the query succeeds and reports the contract as not
\* verified, the indicator is the warning 'Contract is not verified on
\* Etherscan', also for a whitelisted address.
C5_WhitelistOnlyFallback ==
  (RiskDone /\ ReportedUnverified)
    => /\ Result[1].severity = "warning"
       /\ Result[1].message = "Contract is not verified on Etherscan"

Rank(type) ==
  CASE type = "UNVERIFIED_CONTRACT" -> 1
    [] type = "NEW_TOKEN" -> 2
    [] type = "NO_DEX_POOL" -> 3
    [] type = "HIGH_VALUE" -> 4

\* C6: every returned list follows the check order: the contract-verification
\* indicator precedes the token-age indicator, which precedes the liquidity
\* indicator, which precedes the value indicator, and each check contributes at
\* most one indicator, whatever the severities.
C6_CheckOrder ==
  RiskDone =>
    \A i, j \in 1..Len(Result) : i < j => Rank(Result[i].type) < Rank(Result[j].type)

\* all four checks have contributed, and a warning follows an info indicator
C6_Witness ==
  /\ RiskDone
  /\ Len(Result) = 4
  /\ Result[1].severity = "info"
  /\ Result[2].severity = "warning"
  /\ Result[3].severity = "info"
  /\ Result[4].severity = "warning"

\* no call data: absent, '0x' or at most two characters
NoCallData ==
  \/ ~Present(risk.transactionData)
  \/ Get(risk.transactionData) = <<"0", "x">>
  \/ Len(Get(risk.transactionData)) <= 2

SimpleTransferMessage == "Simple ETH transfer to wallet address"

\* C7: the info indicator 'Simple ETH transfer to wallet address' is added if
\* and only if there is no call data and no check produced an indicator; when
\* it is added it is the only element of the list.
C7_SimpleTransferIndicator ==
  RiskDone =>
    LET checkIndicators == {i \in 1..Len(Result) : Result[i].message # SimpleTransferMessage}
    IN /\ (SimpleTransferMessage \in Messages(Result))
            <=> (NoCallData /\ checkIndicators = {})
       /\ (SimpleTransferMessage \in Messages(Result))
            => /\ Len(Result) = 1
               /\ Result[1].severity = "info"

\* a transfer of 0.5 ETH without call data: only the simple-transfer indicator
C7_Witness ==
  /\ RiskDone
  /\ NoCallData
  /\ NumericValue /\ ValueMilli = 500
  /\ Len(Result) = 1
  /\ Result[1].message = SimpleTransferMessage

\* C8: checkTransactionValue returns null for v <= 1, an info HIGH_VALUE
\* indicator for 1 < v <= 10 and a warning HIGH_VALUE indicator for v > 10, and
\* in analyzeRiskIndicators a null result adds no entry to the list.
C8_ValueThresholds ==
  (RiskDone /\ NumericValue) =>
    LET res == checkTransactionValue(Get(risk.valueInEth))
        entries == OfType(Result, "HIGH_VALUE")
    IN /\ ~res.threw
       /\ ValueMilli <= 1000 => (~Present(res.value) /\ entries = {})
       /\ (ValueMilli > 1000 /\ ValueMilli <= 10000) =>
            /\ Present(res.value)
            /\ Get(res.value).type = "HIGH_VALUE"
            /\ Get(res.value).severity = "info"
            /\ entries = {Len(Result)}
            /\ Result[Len(Result)] = Get(res.value)
       /\ ValueMilli > 10000 =>
            /\ Present(res.value)
            /\ Get(res.value).type = "HIGH_VALUE"
            /\ Get(res.value).severity = "warning"
            /\ entries = {Len(Result)}
            /\ Result[Len(Result)] = Get(res.value)

\* the value is exactly 10 ETH and the list ends with the info indicator
C8_Witness ==
  /\ RiskDone
  /\ NumericValue /\ ValueMilli = 10000
  /\ Len(Result) >= 1
  /\ Result[Len(Result)].type = "HIGH_VALUE"
  /\ Result[Len(Result)].severity = "info"

(***************************************************************************)
(* Properties of the transaction parser and the intent analyzer            *)
(***************************************************************************)
\* parseTransaction has run on a request
Parsed == ~parse.handBuilt /\ parse.pc \in {"parsed", "done", "failed"}
TxRequest == parse.txRequest
ParsedTx == Get(parse.parsed.value)

\* the call data of the request, as parseTransaction reads it
RequestData == IF Truthy(TxRequest.data) THEN Get(TxRequest.data) ELSE <<"0", "x">>

\* the selector of the call data is in the registry
RecognisedSelector ==
  /\ Len(RequestData) >= 10
  /\ \E i \in 1..Len(FUNCTION_SIGNATURES) :
       FUNCTION_SIGNATURES[i].sig = SubSeq(RequestData, 3, 10)

RegisteredName ==
  FUNCTION_SIGNATURES[CHOOSE i \in 1..Len(FUNCTION_SIGNATURES) :
                        FUNCTION_SIGNATURES[i].sig = SubSeq(RequestData, 3, 10)].func

\* the parameters of the recognised function cannot be decoded from the data
DecodingFails ==
  /\ RecognisedSelector
  /\ decodeFunctionData(Get(createAbiFragment(RegisteredName)), RequestData).threw

\* the value of the request is absent, '0x0' or a number
ValueReadable ==
  \/ ~Truthy(TxRequest.value)
  \/ ~getBigIntOfString(Get(TxRequest.value)).threw

\* C9 as stated: parseTransaction never throws because of malformed call
\* data, and when parameter decoding fails for a recognised selector the result
\* has kind Unknown and no parameters field.
C9_DecodeFailureGivesUnknown ==
  Parsed =>
    /\ ValueReadable => ~parse.parsed.threw
    /\ (ValueReadable /\ DecodingFails)
         => /\ ParsedTx.type = UNKNOWN
            /\ ~Present(ParsedTx.parameters)

\* C9 amended: parseTransaction never throws because of malformed call data
\* (it throws only for a value that is not a number), and when parameter
\* decoding fails for a recognised selector the result keeps the registered
\* function name and the kind given by the name rule, which is never Unknown,
\* and its parameters field is the empty list (not absent).
C9_DecodeFailureGivesEmptyList ==
  Parsed =>
    /\ parse.parsed.threw <=> ~ValueReadable
    /\ (ValueReadable /\ DecodingFails)
         => /\ ParsedTx.functionName = Some(RegisteredName)
            /\ ParsedTx.type = determineTransactionType(RegisteredName)
            /\ ParsedTx.type # UNKNOWN
            /\ ParsedTx.parameters = Some(<<>>)

\* a request whose data is the selector of swapExactTokensForTokens followed by
\* an odd number of hexadecimal digits has been parsed
C9_Witness ==
  /\ Parsed /\ ValueReadable /\ DecodingFails
  /\ Len(RequestData) > 10 /\ Len(RequestData) % 2 = 1
  /\ ParsedTx.type = SWAP
  /\ ParsedTx.parameters = Some(<<>>)

\* analyzeIntent has run
Analyzed == parse.pc = "done" \/ (parse.pc = "failed" /\ ~parse.parsed.threw)

\* the number of inputs the function of the transaction declares
DeclaredInputs ==
  IF Truthy(ParsedTx.functionName) /\ Present(createAbiFragment(Get(ParsedTx.functionName)))
  THEN Len(Get(createAbiFragment(Get(ParsedTx.functionName))).inputs)
  ELSE 0

\* a Swap, an Approval or a token Transfer
ParameterisedKind ==
  \/ ParsedTx.type \in {SWAP, APPROVAL}
  \/ ParsedTx.type = TRANSFER /\ Truthy(ParsedTx.functionName)

\* the parameter list is absent, empty or shorter than the function declares
ParametersLacking ==
  \/ ~Present(ParsedTx.parameters)
  \/ Len(Get(ParsedTx.parameters)) = 0
  \/ Len(Get(ParsedTx.parameters)) < DeclaredInputs

\* C10: a Swap, Approval or token-Transfer transaction whose parameter list is
\* absent, empty or too short for its function is explained through the
\* Unknown fallback with confidence low, never high or medium.
C10_LackingParametersGiveLow ==
  (Analyzed /\ ParameterisedKind /\ ParametersLacking)
    => /\ ~parse.analysis.threw
       /\ Get(parse.analysis.value).confidence = "low"
       /\ Get(parse.analysis.value) = analyzeUnknown(ParsedTx)

\* the name begins with the given word
StartsWith(name, word) == Len(name) >= Len(word) /\ SubSeq(name, 1, Len(word)) = word

\* the kind the name rule gives to a registered prototype
KindOfName(name) ==
  CASE StartsWith(name, <<"t", "r", "a", "n", "s", "f", "e", "r">>) -> TRANSFER
    [] StartsWith(name, <<"s", "w", "a", "p">>) -> SWAP
    [] StartsWith(name, <<"a", "p", "p", "r", "o", "v", "e">>) -> APPROVAL
    [] StartsWith(name, <<"a", "d", "d", "L", "i", "q", "u", "i", "d", "i", "t", "y">>) \/ StartsWith(name, <<"r", "e", "m", "o", "v", "e", "L", "i", "q", "u", "i", "d", "i", "t", "y">>) -> LIQUIDITY
    [] OTHER -> UNKNOWN

\* C11: whenever parseTransaction returns, its classification depends on the
\* call data alone: data absent or '0x' gives kind Transfer with no selector,
\* functionName or parameters; a selector that is missing or not registered
\* gives kind Unknown with no functionName and no parameters; a registered
\* selector gives the registered prototype as functionName and the kind of the
\* name rule.
C11_ClassifiedByData ==
  (Parsed /\ ~parse.parsed.threw) =>
    IF RequestData = <<"0", "x">>
    THEN /\ ParsedTx.type = TRANSFER
         /\ ~Present(ParsedTx.functionSignature)
         /\ ~Present(ParsedTx.functionName)
         /\ ~Present(ParsedTx.parameters)
    ELSE IF ~RecognisedSelector
    THEN /\ ParsedTx.type = UNKNOWN
         /\ ~Present(ParsedTx.functionName)
         /\ ~Present(ParsedTx.parameters)
         /\ Present(ParsedTx.functionSignature) <=> Len(RequestData) >= 10
    ELSE /\ ParsedTx.functionName = Some(RegisteredName)
         /\ ParsedTx.functionSignature = Some(SubSeq(RequestData, 3, 10))
         /\ ParsedTx.type = KindOfName(RegisteredName)
         /\ ParsedTx.type # UNKNOWN

\* a request with the selector of removeLiquidity has been parsed as Liquidity
C11_Witness ==
  /\ Parsed /\ ~parse.parsed.threw
  /\ RecognisedSelector
  /\ RegisteredName = <<"r", "e", "m", "o", "v", "e", "L", "i", "q", "u", "i", "d", "i", "t", "y", "(", "a", "d", "d", "r", "e", "s", "s", ",", "a", "d", "d", "r", "e", "s", "s", ",", "u", "i", "n", "t", "2", "5", "6", ",", "u", "i", "n", "t", "2", "5", "6", ",", "u", "i", "n", "t", "2", "5", "6", ",", "a", "d", "d", "r", "e", "s", "s", ",", "u", "i", "n", "t", "2", "5", "6", ")">>
  /\ ParsedTx.type = LIQUIDITY

\* the transaction is handled by the Unknown fallback: its kind is Unknown, or
\* the case of its kind falls through
UnknownFallback ==
  LET fn == ParsedTx.functionName
      ps == ParsedTx.parameters
      AtLeast(n) == Present(ps) /\ Len(Get(ps)) >= n
  IN CASE ParsedTx.type = TRANSFER ->
            /\ Truthy(fn)
            /\ ~(Get(fn) = <<"t", "r", "a", "n", "s", "f", "e", "r", "(", "a", "d", "d", "r", "e", "s", "s", ",", "u", "i", "n", "t", "2", "5", "6", ")">> /\ AtLeast(2))
            /\ ~(Get(fn) = <<"t", "r", "a", "n", "s", "f", "e", "r", "F", "r", "o", "m", "(", "a", "d", "d", "r", "e", "s", "s", ",", "a", "d", "d", "r", "e", "s", "s", ",", "u", "i", "n", "t", "2", "5", "6", ")">> /\ AtLeast(3))
       [] ParsedTx.type = SWAP -> ~Truthy(fn) \/ ~Present(ps)
       [] ParsedTx.type = APPROVAL -> ~AtLeast(2)
       [] ParsedTx.type = LIQUIDITY ->
            \/ ~Truthy(fn) \/ ~Present(ps)
            \/ /\ ~includes(Get(fn), <<"a", "d", "d", "L", "i", "q", "u", "i", "d", "i", "t", "y">>)
               /\ ~includes(Get(fn), <<"r", "e", "m", "o", "v", "e", "L", "i", "q", "u", "i", "d", "i", "t", "y">>)
       [] OTHER -> TRUE

\* C12: a transaction handled by the Unknown fallback is explained with
\* confidence low; its intent is the literal 'Unknown transaction type' exactly
\* when the native value is zero, and 'Send {amount} ETH to {label}' when the
\* value is not zero, with or without call data.
C12_UnknownFallback ==
  (Analyzed /\ UnknownFallback) =>
    /\ ~parse.analysis.threw
    /\ Get(parse.analysis.value).confidence = "low"
    /\ Get(parse.analysis.value).intent.text = "Unknown transaction type"
         <=> ParsedTx.value = <<"0">>
    /\ ParsedTx.value # <<"0">> =>
         Get(parse.analysis.value).intent =
           Sentence("Send {0} ETH to {1}",
                    <<Plain(formatValue(ParsedTx.value)), Plain(identifyContract(ParsedTx.to))>>)

\* a transaction of kind Unknown with call data and a value of one ether has
\* been explained
C12_Witness ==
  /\ Analyzed /\ UnknownFallback
  /\ ParsedTx.type = UNKNOWN
  /\ Len(ParsedTx.data) > 2
  /\ ParsedTx.value = <<"1", "0", "0", "0", "0", "0", "0", "0", "0", "0", "0", "0", "0", "0", "0", "0", "0", "0", "0">>
  /\ Get(parse.analysis.value).intent.text = "Send {0} ETH to {1}"

\* an Approval with at least two parameters, the second one a number, has been
\* explained
ApprovalExplained ==
  /\ Analyzed
  /\ ParsedTx.type = APPROVAL
  /\ Present(ParsedTx.parameters)
  /\ Len(Get(ParsedTx.parameters)) >= 2
  /\ ~getBigInt(Get(ParsedTx.parameters)[2]).threw

ApprovedAmount == Get(getBigInt(Get(ParsedTx.parameters)[2]).value)

\* 2^256 - 1 in decimal digits
TwoTo256MinusOne ==
  <<"1", "1", "5", "7", "9", "2", "0", "8", "9", "2", "3", "7", "3", "1", "6", "1", "9", "5", "4", "2", "3", "5", "7", "0", "9", "8", "5", "0", "0", "8", "6", "8", "7", "9", "0", "7", "8", "5", "3", "2", "6", "9", "9", "8", "4", "6", "6", "5", "6", "4", "0", "5", "6", "4", "0", "3", "9", "4", "5", "7", "5", "8", "4", "0", "0", "7", "9", "1", "3", "1", "2", "9", "6", "3", "9", "9", "3", "5">>

\* the rendered intent holds the word
IntentHolds(analysis, word) ==
  \E i \in 1..Len(analysis.intent.args) : includes(analysis.intent.args[i].text, word)

UnlimitedWarning == "WARNING: This grants unlimited spending permission"

\* C13: for an Approval with at least two decoded parameters the intent
\* contains 'unlimited' and the details contain the line 'WARNING: This grants
\* unlimited spending permission' exactly when the amount is at least
\* 2^256 - 1; for a smaller amount neither appears.
C13_UnlimitedApproval ==
  ApprovalExplained =>
    /\ ~parse.analysis.threw
    /\ IntentHolds(Get(parse.analysis.value), <<"u", "n", "l", "i", "m", "i", "t", "e", "d">>)
         <=> BigGte(ApprovedAmount, TwoTo256MinusOne)
    /\ (\E i \in 1..Len(Get(parse.analysis.value).details) :
          Get(parse.analysis.value).details[i] = UnlimitedWarning)
         <=> BigGte(ApprovedAmount, TwoTo256MinusOne)

\* an approval of exactly 2^256 - 1, decoded from call data, has been explained
\* as unlimited
C13_Witness ==
  /\ ApprovalExplained
  /\ ~parse.handBuilt
  /\ ApprovedAmount = TwoTo256MinusOne
  /\ IntentHolds(Get(parse.analysis.value), <<"u", "n", "l", "i", "m", "i", "t", "e", "d">>)

HexString(s) == Len(s) >= 2 /\ SubSeq(s, 1, 2) = <<"0", "x">> /\ \A i \in 3..Len(s) : HexVal(s[i]) >= 0

\* the request is well formed: to is absent or an address, value is absent or
\* a hexadecimal number, data is absent or hexadecimal
WellFormed ==
  /\ Present(TxRequest.to) => HexString(Get(TxRequest.to)) /\ Len(Get(TxRequest.to)) = 42
  /\ Present(TxRequest.value) => HexString(Get(TxRequest.value)) /\ Len(Get(TxRequest.value)) > 2
  /\ Present(TxRequest.data) => HexString(Get(TxRequest.data))

Confidences == {"high", "medium", "low"}

\* C14: for a well-formed request parseTransaction followed by analyzeIntent
\* never throws and returns a non-empty intent and a confidence among high,
\* medium and low, for every kind and whether or not the parameters could be
\* decoded.
C14_AnalysisComplete ==
  (Parsed /\ WellFormed) =>
    /\ ~parse.parsed.threw
    /\ parse.pc # "failed"
    /\ parse.pc = "done" =>
         /\ ~parse.analysis.threw
         /\ Get(parse.analysis.value).intent.text # ""
         /\ Get(parse.analysis.value).confidence \in Confidences

\* a well-formed token transfer whose parameters could not be decoded has been
\* explained
C14_Witness ==
  /\ Parsed /\ WellFormed /\ DecodingFails
  /\ parse.pc = "done"
  /\ ParsedTx.type = TRANSFER
  /\ Get(parse.analysis.value).confidence = "low"

\* the indicator list of the context a logged decision was made on
IndicatorsOf(entry) ==
  IF "isDemo" \in DOMAIN entry
  THEN entry.transaction.riskIndicators
  ELSE requests[entry.transaction].riskIndicators

WarningsIn(riskIndicators) ==
  Cardinality({i \in 1..Len(riskIndicators) : riskIndicators[i] = "warning"})

\* C15: the riskLevel handed to the logger with a decision, intercepted or
\* mock, is a function of the indicator list of the context alone: high for
\* two or more warnings, medium for exactly one, low otherwise, whether the
\* user approved or rejected.
C15_RiskLevelFromIndicators ==
  \A i \in 1..Len(logged) :
    logged[i].riskLevel =
      (IF WarningsIn(IndicatorsOf(logged[i])) >= 2 THEN "high"
       ELSE IF WarningsIn(IndicatorsOf(logged[i])) = 1 THEN "medium"
       ELSE "low")

\* the invocation c of approveTransaction / rejectTransaction returns in this step
HandlerReturns(c) == calls[c].pc \in {"accounts", "logging"} /\ calls'[c].pc = "done"

\* what resolve(true) / resolve(false) leaves in a promise
Delivered(userChoice) == IF userChoice = "approved" THEN "true" ELSE "false"

\* C24: a failure of decision logging never prevents the user's choice from
\* being delivered: when approveTransaction or rejectTransaction returns, the
\* pending promise is resolved (with true or false respectively, a promise
\* keeping its first resolution) and pendingTransaction is cleared, whether
\* the account lookup and logDecision succeeded or threw.
C24_ChoiceDelivered ==
  [][\A c \in CallIds :
       HandlerReturns(c) =>
         /\ requests'[calls[c].captured].settled =
              (IF requests[calls[c].captured].settled = "none"
               THEN Delivered(calls[c].userChoice)
               ELSE requests[calls[c].captured].settled)
         /\ requests'[calls[c].captured].settled \in {"true", "false"}
         /\ pendingTransaction' = NoTx]_vars

\* logging failed for a request and for another, and both were settled, one
\* with each choice
C24_Witness ==
  \E r, q \in ReqIds :
    /\ requests[r].loggingFailed /\ requests[r].settled = "true"
    /\ requests[q].loggingFailed /\ requests[q].settled = "false"
    /\ pendingTransaction = NoTx

\* the positions in logged of the decisions logged for request r
LoggedFor(r) == {i \in 1..Len(logged) : logged[i].transaction = r}

\* C25: for each pending transaction at most one decision is logged and the
\* pending promise is settled with that same choice, also when
\* approveTransaction and rejectTransaction are invoked repeatedly or both
\* while an earlier invocation is still awaiting the logger.
C25_OneDecisionPerTransaction ==
  \A r \in ReqIds :
    /\ Cardinality(LoggedFor(r)) <= 1
    /\ \A i \in LoggedFor(r) :
         requests[r].settled \in {"none", Delivered(logged[i].userChoice)}

(***************************************************************************)
(* Specifications                                                          *)
(***************************************************************************)
NextInterceptor ==
  \/ \E r \in ReqIds, a \in RequestArgs, t \in BOOLEAN : Request(r, a, t)
  \/ \E r \in ReqIds, l \in SeverityLists : AnalysisDone(r, l)
  \/ \E c \in CallIds : approveTransaction(c)
  \/ \E c \in CallIds : rejectTransaction(c)
  \/ \E c \in CallIds, t \in BOOLEAN : AccountsDone(c, t)
  \/ \E c \in CallIds, t \in BOOLEAN : LogDone(c, t)
  \/ \E r \in ReqIds : Resume(r)

(***************************************************************************)
(* Mock-transaction review of the application: App.tsx                     *)
(***************************************************************************)
(***************************************************************************)
(* Ledger contract: contracts/AuraDecisionLogger.sol                       *)
(***************************************************************************)
\* the most ids getRecentDecisions returns
MaxRecent == 100

Deployer == 1
Addresses == {Deployer, 2}
ZeroAddress == 0
Bytes32Zero == 0

\* counts callers ask getRecentDecisions for
RecentCounts == {0, 1, 2, MaxLogs + 1, MaxRecent, MaxRecent + 1}

\* block.timestamp of the deployment
DeployTime == 1

DecisionRecord(transactionHash, userAddressHash, approved, timestamp, riskLevel, isDemo) ==
  [transactionHash |-> transactionHash, userAddressHash |-> userAddressHash,
   approved |-> approved, timestamp |-> timestamp, riskLevel |-> riskLevel,
   isDemo |-> isDemo]

\* the value of a mapping slot never written
NoRecord == DecisionRecord(Bytes32Zero, Bytes32Zero, FALSE, 0, "", FALSE)

DecisionStats(totalDecisions, totalApprovals, totalRejections, lastUpdated) ==
  [totalDecisions |-> totalDecisions, totalApprovals |-> totalApprovals,
   totalRejections |-> totalRejections, lastUpdated |-> lastUpdated]

\* the storage after the constructor; decisions holds the slots written so far
Deployed ==
  [decisions |-> [id \in {} |-> NoRecord],
   stats |-> DecisionStats(0, 0, 0, DeployTime),
   owner |-> Deployer,
   decisionHashes |-> <<>>,
   paused |-> FALSE]

NoCall == [fn |-> "none"]

\* accepted counts the logDecision calls that returned
ChainStart ==
  [timestamp |-> DeployTime, lastCall |-> NoCall,
   accepted |-> [approved |-> 0, rejected |-> 0]]

\* decisions[id]
DecisionAt(st, id) == IF id \in DOMAIN st.decisions THEN st.decisions[id] ELSE NoRecord

\* keccak256(abi.encodePacked(_transactionHash, _userAddressHash, block.timestamp)):
\* distinct inputs give distinct ids
decisionId(transactionHash, userAddressHash, timestamp) ==
  <<transactionHash, userAddressHash, timestamp>>

Ok(st, value) == [reverted |-> FALSE, reason |-> "", st |-> st, value |-> value]
Revert(st, reason) == [reverted |-> TRUE, reason |-> reason, st |-> st, value |-> <<>>]

LogArgs(transactionHash, userAddressHash, approved, riskLevel, isDemo) ==
  [transactionHash |-> transactionHash, userAddressHash |-> userAddressHash,
   approved |-> approved, riskLevel |-> riskLevel, isDemo |-> isDemo]

\* logDecision without the require on the risk level
logDecisionBody_anyRiskLevel(st, now, a) ==
  LET id == decisionId(a.transactionHash, a.userAddressHash, now)
  IN IF a.transactionHash = Bytes32Zero
     THEN Revert(st, "Transaction hash cannot be empty")
     ELSE IF a.userAddressHash = Bytes32Zero
     THEN Revert(st, "User address hash cannot be empty")
     ELSE IF DecisionAt(st, id).timestamp # 0
     THEN Revert(st, "Decision already logged")
     ELSE Ok([st EXCEPT
                !.decisions = [k \in DOMAIN st.decisions \cup {id} |->
                                 IF k = id
                                 THEN DecisionRecord(a.transactionHash, a.userAddressHash,
                                                     a.approved, now, a.riskLevel, a.isDemo)
                                 ELSE st.decisions[k]],
                !.decisionHashes = Append(@, id),
                !.stats = DecisionStats(
                            @.totalDecisions + 1,
                            IF a.approved THEN @.totalApprovals + 1 ELSE @.totalApprovals,
                            IF a.approved THEN @.totalRejections ELSE @.totalRejections + 1,
                            now)],
             <<>>)

\* logDecision that counts a rejection as an approval
logDecisionBody_allApprovals(st, now, a) ==
  LET id == decisionId(a.transactionHash, a.userAddressHash, now)
  IN IF a.transactionHash = Bytes32Zero
     THEN Revert(st, "Transaction hash cannot be empty")
     ELSE IF a.userAddressHash = Bytes32Zero
     THEN Revert(st, "User address hash cannot be empty")
     ELSE IF a.riskLevel \notin {"low", "medium", "high"}
     THEN Revert(st, "Risk level must be 'low', 'medium', or 'high'")
     ELSE IF DecisionAt(st, id).timestamp # 0
     THEN Revert(st, "Decision already logged")
     ELSE Ok([st EXCEPT
                !.decisions = [k \in DOMAIN st.decisions \cup {id} |->
                                 IF k = id
                                 THEN DecisionRecord(a.transactionHash, a.userAddressHash,
                                                     a.approved, now, a.riskLevel, a.isDemo)
                                 ELSE st.decisions[k]],
                !.decisionHashes = Append(@, id),
                !.stats = DecisionStats(@.totalDecisions + 1, @.totalApprovals + 1,
                                        @.totalRejections, now)],
             <<>>)

\* logDecision without the require on the slot of the id
logDecisionBody_noDuplicateCheck(st, now, a) ==
  LET id == decisionId(a.transactionHash, a.userAddressHash, now)
  IN IF a.transactionHash = Bytes32Zero
     THEN Revert(st, "Transaction hash cannot be empty")
     ELSE IF a.userAddressHash = Bytes32Zero
     THEN Revert(st, "User address hash cannot be empty")
     ELSE IF a.riskLevel \notin {"low", "medium", "high"}
     THEN Revert(st, "Risk level must be 'low', 'medium', or 'high'")
     ELSE Ok([st EXCEPT
                !.decisions = [k \in DOMAIN st.decisions \cup {id} |->
                                 IF k = id
                                 THEN DecisionRecord(a.transactionHash, a.userAddressHash,
                                                     a.approved, now, a.riskLevel, a.isDemo)
                                 ELSE st.decisions[k]],
                !.decisionHashes = Append(@, id),
                !.stats = DecisionStats(
                            @.totalDecisions + 1,
                            IF a.approved THEN @.totalApprovals + 1 ELSE @.totalApprovals,
                            IF a.approved THEN @.totalRejections ELSE @.totalRejections + 1,
                            now)],
             <<>>)

\* the body of logDecision run on storage st in a block of time now
logDecisionBody(st, now, a) ==
  LET id == decisionId(a.transactionHash, a.userAddressHash, now)
  IN IF a.transactionHash = Bytes32Zero
     THEN Revert(st, "Transaction hash cannot be empty")
     ELSE IF a.userAddressHash = Bytes32Zero
     THEN Revert(st, "User address hash cannot be empty")
     ELSE IF a.riskLevel \notin {"low", "medium", "high"}
     THEN Revert(st, "Risk level must be 'low', 'medium', or 'high'")
     ELSE IF DecisionAt(st, id).timestamp # 0
     THEN Revert(st, "Decision already logged")
     ELSE Ok([st EXCEPT
                !.decisions = [k \in DOMAIN st.decisions \cup {id} |->
                                 IF k = id
                                 THEN DecisionRecord(a.transactionHash, a.userAddressHash,
                                                     a.approved, now, a.riskLevel, a.isDemo)
                                 ELSE st.decisions[k]],
                !.decisionHashes = Append(@, id),
                !.stats = DecisionStats(
                            @.totalDecisions + 1,
                            IF a.approved THEN @.totalApprovals + 1 ELSE @.totalApprovals,
                            IF a.approved THEN @.totalRejections ELSE @.totalRejections + 1,
                            now)],
             <<>>)

\* a call returns or reverts: the storage is the one the call left, or the one
\* before the call
Executed(fn, sender, args, res) ==
  /\ ledger' = IF res.reverted THEN ledger ELSE res.st
  /\ chain' = [chain EXCEPT
       !.lastCall = [fn |-> fn, sender |-> sender, args |-> args,
                     reverted |-> res.reverted, reason |-> res.reason, value |-> res.value],
       !.accepted = IF fn \in {"logDecision", "logDecisionSafe"} /\ ~res.reverted
                    THEN IF args.approved
                         THEN [@ EXCEPT !.approved = @ + 1]
                         ELSE [@ EXCEPT !.rejected = @ + 1]
                    ELSE @]

Called(fn, sender, args, res) ==
  /\ Executed(fn, sender, args, res)
  /\ UNCHANGED <<ivars, rvars, pvars, avars, dvars>>

\* the ledger holds at most MaxLogs records: a call that would add one more is
\* not made
WithinLogs(res) == res.reverted \/ Len(ledger.decisionHashes) < MaxLogs

External(fn, sender, args, res) == WithinLogs(res) /\ Called(fn, sender, args, res)

logDecision(sender, a) ==
  External("logDecision", sender, a, logDecisionBody(ledger, chain.timestamp, a))

\* whenNotPaused, then this.logDecision(...)
logDecisionSafe(sender, a) ==
  External("logDecisionSafe", sender, a,
           IF ledger.paused THEN Revert(ledger, "Contract is paused")
           ELSE logDecisionBody(ledger, chain.timestamp, a))

setPaused(sender, paused) ==
  Called("setPaused", sender, [paused |-> paused],
         IF sender # ledger.owner THEN Revert(ledger, "Only owner can call this function")
         ELSE Ok([ledger EXCEPT !.paused = paused], <<>>))

\* transferOwnership without the require on the new owner
transferOwnership_anyNewOwner(sender, newOwner) ==
  Called("transferOwnership", sender, [newOwner |-> newOwner],
         IF sender # ledger.owner THEN Revert(ledger, "Only owner can call this function")
         ELSE Ok([ledger EXCEPT !.owner = newOwner], <<>>))

transferOwnership(sender, newOwner) ==
  Called("transferOwnership", sender, [newOwner |-> newOwner],
         IF sender # ledger.owner THEN Revert(ledger, "Only owner can call this function")
         ELSE IF newOwner = ZeroAddress
         THEN Revert(ledger, "New owner cannot be zero address")
         ELSE Ok([ledger EXCEPT !.owner = newOwner], <<>>))

getStats(sender) ==
  Called("getStats", sender, <<>>, Ok(ledger, ledger.stats))

getDecisionCount(sender) ==
  Called("getDecisionCount", sender, <<>>, Ok(ledger, Len(ledger.decisionHashes)))

\* the loop of getRecentDecisions reading from the start of decisionHashes
RecentIds_oldestFirst(decisionHashes, count) ==
  LET totalDecisions == Len(decisionHashes)
      returnCount == IF count > totalDecisions THEN totalDecisions ELSE count
  IN [i \in 1..returnCount |-> decisionHashes[i]]

\* the ids the loop of getRecentDecisions writes: decisionIds[i] =
\* decisionHashes[totalDecisions - 1 - i], arrays counted from 0
RecentIds(decisionHashes, count) ==
  LET totalDecisions == Len(decisionHashes)
      returnCount == IF count > totalDecisions THEN totalDecisions ELSE count
  IN [i \in 1..returnCount |-> decisionHashes[(totalDecisions - 1 - (i - 1)) + 1]]

getRecentDecisions(sender, count) ==
  Called("getRecentDecisions", sender, [count |-> count],
         IF ~(count > 0 /\ count <= MaxRecent)
         THEN Revert(ledger, "Count must be between 1 and 100")
         ELSE Ok(ledger, RecentIds(ledger.decisionHashes, count)))

\* a later block is mined
NextBlock ==
  /\ chain.timestamp < MaxTime
  /\ chain' = [chain EXCEPT !.timestamp = @ + 1]
  /\ UNCHANGED <<ivars, rvars, pvars, avars, ledger, dvars>>

MockIdle == [currentTransaction |-> None, address |-> None, inFlight |-> 0]

\* useMetaMask: the wallet is connected and its first account is the address
connectWallet ==
  /\ mock.address = None
  /\ mock' = [mock EXCEPT !.address = Some("account")]
  /\ UNCHANGED <<ivars, rvars, pvars, lvars, dvars>>

\* handleLoadMockTransaction: the mock transaction goes through the pipeline
\* and its context becomes currentTransaction; a failure is only reported
handleLoadMockTransaction(riskIndicators, throws) ==
  /\ mock' = IF throws THEN mock
             ELSE [mock EXCEPT !.currentTransaction =
                                  Some([riskIndicators |-> riskIndicators])]
  /\ UNCHANGED <<ivars, rvars, pvars, lvars, dvars>>

\* currentTransaction.riskIndicators.some(r => r.severity === 'warning')
SomeWarning(riskIndicators) ==
  \E i \in 1..Len(riskIndicators) : riskIndicators[i] = "warning"

\* handleMockApprove / handleMockReject up to `await decisionLogger.logDecision`
MockDecide(userChoice, riskLevel) ==
  /\ Present(mock.currentTransaction)
  /\ Present(mock.address)
  /\ Len(logged) < MaxMock
  /\ logged' = Append(logged, [transaction |-> Get(mock.currentTransaction),
                               userChoice |-> userChoice,
                               riskLevel |-> riskLevel,
                               isDemo |-> TRUE])
  /\ mock' = [mock EXCEPT !.inFlight = @ + 1]
  /\ UNCHANGED <<requests, pendingTransaction, isIntercepting, isAnalyzing, calls,
                 rvars, pvars, lvars, dvars>>

handleMockApprove ==
  /\ Present(mock.currentTransaction)
  /\ MockDecide("approved",
                IF SomeWarning(Get(mock.currentTransaction).riskIndicators)
                THEN "medium" ELSE "low")

handleMockReject ==
  /\ Present(mock.currentTransaction)
  /\ MockDecide("rejected",
                IF SomeWarning(Get(mock.currentTransaction).riskIndicators)
                THEN "high" ELSE "medium")

\* logDecision has returned or thrown: setCurrentView('main'),
\* setCurrentTransaction(null)
MockLogDone ==
  /\ mock.inFlight > 0
  /\ mock' = [mock EXCEPT !.inFlight = @ - 1, !.currentTransaction = None]
  /\ UNCHANGED <<ivars, rvars, pvars, lvars, dvars>>

(***************************************************************************)
(* Decision logger client: utils/decisionLogger.ts                         *)
(***************************************************************************)
LogCallIds == 1..MaxLogCalls

\* const salt = 'aura-decision-firewall-v1'
salt == <<"a", "u", "r", "a", "-", "d", "e", "c", "i", "s", "i", "o", "n", "-", "f", "i", "r", "e", "w", "a", "l", "l", "-", "v", "1">>

\* addresses and transaction hashes callers pass; '' is what approveTransaction
\* passes when the wallet returns no account
UserAddresses == {<<"0", "x", "A", "b", "C">>, <<"0", "x", "a", "b", "c">>, <<"0", "x", "D", "E", "F">>}
TransactionHashes == {<<"p", "e", "n", "d", "i", "n", "g", "_", "1">>, <<"0", "x", "b", "e", "e", "f">>}

\* the byte strings hashed, in a fixed order
KeccakInputs ==
  <<<<"0", "x", "a", "b", "c">> \o salt, <<"0", "x", "d", "e", "f">> \o salt, <<"0", "x", "A", "b", "C">> \o salt, <<"0", "x", "D", "E", "F">> \o salt, salt,
    <<"p", "e", "n", "d", "i", "n", "g", "_", "1">>, <<"0", "x", "b", "e", "e", "f">>>>

\* ethers.keccak256(ethers.toUtf8Bytes(text)): distinct texts give distinct
\* digests, none of them zero
keccak256(text) == CHOOSE i \in 1..Len(KeccakInputs) : KeccakInputs[i] = text

\* createUserAddressHash hashing the address as it was given
createUserAddressHash_keepsCase(userAddress) == keccak256(userAddress \o salt)

createUserAddressHash(userAddress) == keccak256(toLowerCase(userAddress) \o salt)

LogDecisionParams(transactionHash, userChoice, riskLevel, userAddress, isDemo) ==
  [transactionHash |-> transactionHash, userChoice |-> userChoice,
   riskLevel |-> riskLevel, userAddress |-> userAddress, isDemo |-> isDemo]

NoParams == LogDecisionParams(<<>>, "none", "none", <<>>, FALSE)

LocalRecord(transactionHash, userChoice, riskLevel, timestamp, addressHash, isDemo) ==
  [transactionHash |-> transactionHash, userChoice |-> userChoice,
   riskLevel |-> riskLevel, timestamp |-> timestamp, addressHash |-> addressHash,
   isDemo |-> isDemo]

\* appended and accepted count the local records the call pushed and the
\* ledger records its submissions created
IdleLogCall ==
  [pc |-> "idle", params |-> NoParams, result |-> "none", appended |-> 0,
   submissions |-> 0, accepted |-> 0]

\* the singleton after its constructor: contract && signer is not yet set
LoggerIdle ==
  [localDecisions |-> <<>>, stored |-> <<>>, connected |-> FALSE, now |-> 1,
   calls |-> [k \in LogCallIds |-> IdleLogCall]]

\* localStorage.setItem('aura-decisions', JSON.stringify(this.localDecisions))
saveLocalDecisions(lg) == [lg EXCEPT !.stored = lg.localDecisions]

\* this.localDecisions.push(record); this.saveLocalDecisions(), by call k
PushLocal(lg, k, record) ==
  saveLocalDecisions([lg EXCEPT !.localDecisions = Append(@, record),
                                !.calls[k].appended = @ + 1,
                                !.now = record.timestamp])

\* the filters of getLocalStats
CountChoice(localDecisions, userChoice) ==
  Cardinality({i \in 1..Len(localDecisions) : localDecisions[i].userChoice = userChoice})

getLocalStats(localDecisions) ==
  [totalDecisions |-> Len(localDecisions),
   totalApprovals |-> CountChoice(localDecisions, "approved"),
   totalRejections |-> CountChoice(localDecisions, "rejected")]

\* the three validations at the head of logDecision
ValidParams(p) ==
  /\ ~(p.transactionHash = <<>> \/ p.userAddress = <<>>)
  /\ p.userChoice \in {"approved", "rejected"}
  /\ p.riskLevel \in {"low", "medium", "high"}

\* the arguments of this.contract.logDecision(...)
ContractArgs(p) ==
  LogArgs(keccak256(p.transactionHash), createUserAddressHash(p.userAddress),
          p.userChoice = "approved", p.riskLevel, p.isDemo)

\* the catch of logDecision: Date.now() gives t1 inside some(...) and t2 for the
\* fallback record; the error is thrown again
CatchRethrow(lg, k, t1, t2) ==
  LET p == lg.calls[k].params
      Ended(l) == [l EXCEPT !.calls[k].pc = "done", !.calls[k].result = "threw"]
  IN IF \E i \in 1..Len(lg.localDecisions) :
          /\ lg.localDecisions[i].transactionHash = p.transactionHash
          /\ lg.localDecisions[i].timestamp = t1
     THEN Ended([lg EXCEPT !.now = t1])
     ELSE Ended(PushLocal(lg, k,
                  LocalRecord(p.transactionHash, p.userChoice, p.riskLevel, t2,
                              createUserAddressHash(p.userAddress), p.isDemo)))

\* await this.contract.logDecision(...) is reached
Submit(lg, k) ==
  [lg EXCEPT !.calls[k].pc = "submit", !.calls[k].submissions = @ + 1]

\* readings of Date.now() in one step: none is earlier than the last one
ClockReads(t0, t1, t2) == logger.now <= t0 /\ t0 <= t1 /\ t1 <= t2

LoggerFrame == UNCHANGED <<ivars, rvars, pvars, avars, lvars>>

\* decisionLogger.logDecision(params) up to its first await, or to its end when
\* validation fails or no contract with a signer is connected
LoggerLogDecision(k, params, t0, t1, t2) ==
  LET Started(lg) ==
        [lg EXCEPT !.calls[k] = [IdleLogCall EXCEPT !.pc = "running", !.params = params]]
      Stored(lg) ==
        PushLocal(lg, k, LocalRecord(params.transactionHash, params.userChoice,
                                     params.riskLevel, t0,
                                     createUserAddressHash(params.userAddress),
                                     params.isDemo))
      Try(lg) == IF lg.connected THEN Submit(lg, k) ELSE CatchRethrow(lg, k, t1, t2)
  IN /\ logger.calls[k].pc = "idle"
     /\ \A j \in LogCallIds : j < k => logger.calls[j].pc # "idle"
     /\ ClockReads(t0, t1, t2)
     /\ logger' = IF ValidParams(params)
                  THEN Try(Stored(Started(logger)))
                  ELSE CatchRethrow(Started(logger), k, t1, t2)
     /\ LoggerFrame

\* this.contract.logDecision(...) resolves with the transaction sent, or rejects
\* with a network-class error or with another error; an error of the retry
\* goes to the catch whatever its class
SubmitDone(k, outcome, t1, t2) ==
  /\ logger.calls[k].pc = "submit"
  /\ ClockReads(logger.now, t1, t2)
  /\ logger' =
       IF outcome = "sent" THEN [logger EXCEPT !.calls[k].pc = "wait"]
       ELSE IF outcome = "network" /\ logger.calls[k].submissions = 1
       THEN [logger EXCEPT !.calls[k].pc = "switch"]
       ELSE CatchRethrow(logger, k, t1, t2)
  /\ LoggerFrame

\* the account that signs the logger's transactions
Signer == CHOOSE a \in Addresses : a # Deployer

\* tx.wait(): the transaction is mined in the current block; wait returns, or
\* rejects because the transaction reverted, or rejects with an error of the
\* provider after the transaction was mined
WaitDone(k, outcome, t1, t2) ==
  LET Mined(res) ==
        /\ WithinLogs(res)
        /\ res.reverted => outcome = "other"
        /\ Executed("logDecision", Signer, ContractArgs(logger.calls[k].params), res)
        /\ logger' =
             LET After(lg) ==
                   IF outcome = "confirmed"
                   THEN [lg EXCEPT !.calls[k].pc = "done", !.calls[k].result = "true"]
                   ELSE IF outcome = "network" /\ lg.calls[k].submissions = 1
                   THEN [lg EXCEPT !.calls[k].pc = "switch"]
                   ELSE CatchRethrow(lg, k, t1, t2)
             IN After([logger EXCEPT !.calls[k].accepted =
                                        IF res.reverted THEN @ ELSE @ + 1])
  IN /\ logger.calls[k].pc = "wait"
     /\ ClockReads(logger.now, t1, t2)
     /\ Mined(logDecisionBody(ledger, chain.timestamp, ContractArgs(logger.calls[k].params)))
     /\ UNCHANGED <<ivars, rvars, pvars, avars>>

\* switchToMantleL2() returns: true leads to the retry of the contract call,
\* false to the throw below the if
SwitchDone(k, switched, t1, t2) ==
  /\ logger.calls[k].pc = "switch"
  /\ ClockReads(logger.now, t1, t2)
  /\ logger' = IF switched THEN Submit(logger, k) ELSE CatchRethrow(logger, k, t1, t2)
  /\ LoggerFrame

\* initialize(): loadLocalDecisions(), then initializeProvider() sets contract
\* and signer when the wallet is on the Mantle network
initialize(onMantle) ==
  /\ logger' = [logger EXCEPT
                  !.localDecisions = IF logger.stored # <<>> THEN logger.stored ELSE @,
                  !.connected = onMantle]
  /\ LoggerFrame

\* a later block is mined while the logger runs
LoggerNextBlock ==
  /\ chain.timestamp < MaxTime
  /\ chain' = [chain EXCEPT !.timestamp = @ + 1]
  /\ UNCHANGED <<ivars, rvars, pvars, avars, ledger, dvars>>

\* every other part of the system at rest
OthersIdle ==
  /\ mock = MockIdle /\ ledger = Deployed /\ chain = ChainStart
  /\ logger = LoggerIdle

InitInterceptor == InterceptorIdle /\ risk = RiskIdle /\ parse = ParseIdle /\ OthersIdle

SpecInterceptor == InitInterceptor /\ [][NextInterceptor]_vars

\* The event loop runs every continuation that is ready and the user decides
\* on a review that stays on screen; the dapp need not make further requests.
FairInterceptor ==
  /\ \A r \in ReqIds : WF_vars(\E s \in SeverityLists : AnalysisDone(r, s))
  /\ \A c \in CallIds : WF_vars(approveTransaction(c) \/ rejectTransaction(c))
  /\ \A c \in CallIds : WF_vars(\E t \in BOOLEAN : AccountsDone(c, t))
  /\ \A c \in CallIds : WF_vars(\E t \in BOOLEAN : LogDone(c, t))
  /\ \A r \in ReqIds : WF_vars(Resume(r))

SpecInterceptorFair == SpecInterceptor /\ FairInterceptor

\* every invocation of approveTransaction / rejectTransaction the model allows
\* has been made
DecisionsUsedUp == \A c \in CallIds : calls[c].pc # "idle"

\* C26: every intercepted eth_sendTransaction that reaches review is
\* eventually settled with a user choice: when a second request is intercepted
\* while another is still pending, neither promise is left unresolved forever
\* once the user has decided on the reviews shown.
C26_ReviewedEventuallySettled ==
  \A r \in ReqIds :
    requests[r].reviewed ~> (requests[r].settled \in {"true", "false"} \/ DecisionsUsedUp)

InitRisk ==
  /\ InterceptorIdle
  /\ parse = ParseIdle
  /\ OthersIdle
  /\ \E a \in Recipients, t \in TokenAddresses, v \in ValueStrings, d \in DataStrings :
       risk = RiskCall(a, t, v, d)

NextRisk ==
  \/ analyzeRiskIndicators
  \/ \E resp \in CodeResps : IsContractDone(resp)
  \/ \E resp \in VerifyResps : VerificationDone(resp)
  \/ \E resp \in BlockResps : TokenAgeBlockDone(resp)
  \/ \E resp \in TxResps : TokenAgeTxDone(resp)
  \/ \E resp \in DexResps : DexPoolDone(resp)

SpecRisk == InitRisk /\ [][NextRisk]_vars

InitParse ==
  /\ InterceptorIdle
  /\ risk = RiskIdle
  /\ OthersIdle
  /\ \/ \E to \in ToSamples, value \in ValueSamples, data \in DataSamples :
          parse = ParseCall(TransactionRequest(to, value, data))
     \/ \E k \in 1..Len(HandBuiltCases) :
          \E n \in 1..Len(HandBuiltCases[k].names), l \in 1..Len(HandBuiltCases[k].lists),
             to \in {uniswapV2Router, AddrOther}, value \in HandBuiltValues,
             data \in HandBuiltData :
            parse = AnalyzeCall(ParsedTransaction(
                      to, value, data,
                      IF data = <<"0", "x">> THEN None ELSE Some(SubSeq(data, 3, 10)),
                      HandBuiltCases[k].names[n], HandBuiltCases[k].lists[l],
                      HandBuiltCases[k].type))

NextParse ==
  \/ Parse
  \/ Analyze

SpecParse == InitParse /\ [][NextParse]_vars

NextMock ==
  \/ connectWallet
  \/ \E l \in SeverityLists, t \in BOOLEAN : handleLoadMockTransaction(l, t)
  \/ handleMockApprove
  \/ handleMockReject
  \/ MockLogDone

InitMock ==
  /\ InterceptorIdle /\ risk = RiskIdle /\ parse = ParseIdle
  /\ OthersIdle

SpecMock == InitMock /\ [][NextMock]_vars

\* arguments callers pass to logDecision: two transactions of one user, the
\* first one decided twice, and calls with a zero hash or a risk level that is
\* not one of the three
LogSamples ==
  {LogArgs(1, 1, TRUE, "low", FALSE),
   LogArgs(1, 1, FALSE, "high", TRUE),
   LogArgs(2, 1, TRUE, "medium", TRUE),
   LogArgs(2, 1, FALSE, "low", FALSE),
   LogArgs(Bytes32Zero, 1, TRUE, "low", FALSE),
   LogArgs(1, Bytes32Zero, FALSE, "medium", FALSE),
   LogArgs(1, 1, TRUE, "invalid", FALSE),
   LogArgs(2, 1, FALSE, "", TRUE),
   LogArgs(Bytes32Zero, Bytes32Zero, TRUE, "LOW", FALSE)}

NextLedger ==
  \/ \E s \in Addresses, a \in LogSamples : logDecision(s, a)
  \/ \E s \in Addresses, a \in LogSamples : logDecisionSafe(s, a)
  \/ \E s \in Addresses, p \in BOOLEAN : setPaused(s, p)
  \/ \E s \in Addresses, n \in Addresses \cup {ZeroAddress} : transferOwnership(s, n)
  \/ \E s \in Addresses : getStats(s)
  \/ \E s \in Addresses : getDecisionCount(s)
  \/ \E s \in Addresses, c \in RecentCounts : getRecentDecisions(s, c)
  \/ NextBlock

InitLedger ==
  /\ InterceptorIdle /\ risk = RiskIdle /\ parse = ParseIdle
  /\ OthersIdle

SpecLedger == InitLedger /\ [][NextLedger]_vars

(***************************************************************************)
(* Properties of the ledger contract                                       *)
(***************************************************************************)
RiskLevels == {"low", "medium", "high"}

\* the arguments the claim says logDecision rejects
InvalidLogArgs(a) ==
  \/ a.transactionHash = Bytes32Zero
  \/ a.userAddressHash = Bytes32Zero
  \/ a.riskLevel \notin RiskLevels

\* the call that made this step was logDecision
LogDecisionStep == chain'.lastCall.fn = "logDecision"

\* C16: logDecision rejects a zero transaction hash, a zero user-address hash
\* and any risk level other than 'low', 'medium' or 'high', and a rejected
\* call leaves the totals, the stored records and the list of ids unchanged.
C16_InvalidLogRejected ==
  [][LogDecisionStep =>
       /\ InvalidLogArgs(chain'.lastCall.args) => chain'.lastCall.reverted
       /\ chain'.lastCall.reverted =>
            /\ ledger'.stats = ledger.stats
            /\ ledger'.decisions = ledger.decisions
            /\ ledger'.decisionHashes = ledger.decisionHashes]_vars

\* a logDecision call with a risk level outside the three was rejected by a
\* ledger that already holds a record
C16_Witness ==
  /\ chain.lastCall.fn = "logDecision"
  /\ chain.lastCall.args.transactionHash # Bytes32Zero
  /\ chain.lastCall.args.userAddressHash # Bytes32Zero
  /\ chain.lastCall.args.riskLevel \notin RiskLevels
  /\ chain.lastCall.reverted
  /\ Len(ledger.decisionHashes) > 0

\* C17: after any sequence of ledger calls, totalDecisions is the number of
\* accepted logDecision calls and the length of decisionHashes, totalApprovals
\* the number accepted with approved = true, totalRejections the number with
\* approved = false, and totalDecisions = totalApprovals + totalRejections.
C17_TotalsCountAccepted ==
  /\ ledger.stats.totalDecisions = chain.accepted.approved + chain.accepted.rejected
  /\ ledger.stats.totalDecisions = Len(ledger.decisionHashes)
  /\ ledger.stats.totalApprovals = chain.accepted.approved
  /\ ledger.stats.totalRejections = chain.accepted.rejected
  /\ ledger.stats.totalDecisions = ledger.stats.totalApprovals + ledger.stats.totalRejections

\* an approval and a rejection were accepted and a later call was rejected
C17_Witness ==
  /\ chain.accepted.approved > 0
  /\ chain.accepted.rejected > 0
  /\ chain.lastCall.fn \in {"logDecision", "logDecisionSafe"}
  /\ chain.lastCall.reverted

\* a call of logDecision or logDecisionSafe made this step, in the block of
\* the state before it
LogCallStep ==
  /\ chain'.timestamp = chain.timestamp
  /\ chain'.lastCall.fn \in {"logDecision", "logDecisionSafe"}

\* every record stored before the step is stored unchanged after it
RecordsKept ==
  \A id \in DOMAIN ledger.decisions :
    /\ id \in DOMAIN ledger'.decisions
    /\ ledger'.decisions[id] = ledger.decisions[id]

\* decisionHashes after the step starts with decisionHashes before it
GrowsAtEnd ==
  /\ Len(ledger'.decisionHashes) >= Len(ledger.decisionHashes)
  /\ SubSeq(ledger'.decisionHashes, 1, Len(ledger.decisionHashes)) = ledger.decisionHashes

NoIdTwice ==
  \A i, j \in 1..Len(ledger.decisionHashes) :
    ledger.decisionHashes[i] = ledger.decisionHashes[j] => i = j

\* the call of this step logs a hash, user hash and timestamp already stored
SecondLog ==
  /\ LogCallStep
  /\ ~ledger.paused
  /\ ~InvalidLogArgs(chain'.lastCall.args)
  /\ decisionId(chain'.lastCall.args.transactionHash,
                chain'.lastCall.args.userAddressHash, chain.timestamp)
       \in DOMAIN ledger.decisions

\* C18: the ledger is append-only: no call changes or removes a stored record,
\* decisionHashes only grows at its end and never holds the same id twice, and
\* a second log with the same hash, user hash and timestamp is rejected with
\* 'Decision already logged'.
C18_AppendOnly ==
  /\ []NoIdTwice
  /\ [][/\ RecordsKept
        /\ GrowsAtEnd
        /\ SecondLog => /\ chain'.lastCall.reverted
                        /\ chain'.lastCall.reason = "Decision already logged"]_vars

\* two records are stored and a second log of one of them was rejected
C18_Witness ==
  /\ Len(ledger.decisionHashes) >= 2
  /\ chain.lastCall.fn \in {"logDecision", "logDecisionSafe"}
  /\ chain.lastCall.reverted
  /\ chain.lastCall.reason = "Decision already logged"
  /\ ledger.owner # Deployer

Min(a, b) == IF a <= b THEN a ELSE b

\* the last call was getRecentDecisions(count)
RecentAsked(count) ==
  /\ chain.lastCall.fn = "getRecentDecisions"
  /\ chain.lastCall.args.count = count

\* ids is the min(count, total) most recent ids, most recent first; arrays are
\* counted from 0 in the contract and from 1 here
MostRecentFirst(ids, count) ==
  LET total == Len(ledger.decisionHashes)
  IN /\ Len(ids) = Min(count, total)
     /\ \A i \in 0..(Len(ids) - 1) : ids[i + 1] = ledger.decisionHashes[(total - 1 - i) + 1]

\* C19: getRecentDecisions(count) is rejected unless 1 <= count <= 100;
\* otherwise it returns exactly min(count, total) ids, most recent first:
\* element i is decisionHashes[total - 1 - i].
C19_RecentDecisions ==
  \A count \in RecentCounts :
    RecentAsked(count) =>
      IF 1 <= count /\ count <= 100
      THEN ~chain.lastCall.reverted /\ MostRecentFirst(chain.lastCall.value, count)
      ELSE chain.lastCall.reverted

\* fewer ids were asked for than the ledger holds
C19_Witness ==
  /\ RecentAsked(1)
  /\ Len(ledger.decisionHashes) = 2
  /\ ~chain.lastCall.reverted
  /\ chain.lastCall.value = <<ledger.decisionHashes[2]>>

\* C20: while the ledger contract is paused, no call by any sender adds a
\* decision record or changes the totals; logging is possible again only after
\* the owner sets paused to false.
C20_PausedAddsNothing ==
  [][ledger.paused =>
       /\ ledger'.decisions = ledger.decisions
       /\ ledger'.decisionHashes = ledger.decisionHashes
       /\ ledger'.stats = ledger.stats]_vars

\* a call of setPaused or transferOwnership made this step
OwnerCallStep ==
  /\ chain'.timestamp = chain.timestamp
  /\ chain'.lastCall.fn \in {"setPaused", "transferOwnership"}

\* C21: only the current owner can change paused or owner: setPaused and
\* transferOwnership called by any other sender are rejected and change
\* nothing, transferOwnership rejects the zero address, and owner is never the
\* zero address.
C21_OnlyOwner ==
  /\ [](ledger.owner # ZeroAddress)
  /\ [][/\ (ledger'.paused # ledger.paused \/ ledger'.owner # ledger.owner) =>
             OwnerCallStep /\ chain'.lastCall.sender = ledger.owner
        /\ (OwnerCallStep /\ chain'.lastCall.sender # ledger.owner) =>
             chain'.lastCall.reverted /\ ledger' = ledger
        /\ (OwnerCallStep /\ chain'.lastCall.fn = "transferOwnership"
              /\ chain'.lastCall.args.newOwner = ZeroAddress) =>
             chain'.lastCall.reverted /\ ledger' = ledger]_vars

\* after a transfer of ownership the new owner's transfer to the zero address
\* was rejected
C21_Witness ==
  /\ ledger.owner # Deployer
  /\ chain.lastCall.fn = "transferOwnership"
  /\ chain.lastCall.sender = ledger.owner
  /\ chain.lastCall.args.newOwner = ZeroAddress
  /\ chain.lastCall.reverted

\* parameters callers pass to decisionLogger.logDecision: one transaction
\* decided twice by one account written in two letter cases, a demo
\* transaction, and parameters each validation rejects
LogParamsSamples ==
  {LogDecisionParams(<<"p", "e", "n", "d", "i", "n", "g", "_", "1">>, "approved", "low", <<"0", "x", "A", "b", "C">>, FALSE),
   LogDecisionParams(<<"p", "e", "n", "d", "i", "n", "g", "_", "1">>, "rejected", "high", <<"0", "x", "a", "b", "c">>, FALSE),
   LogDecisionParams(<<"0", "x", "b", "e", "e", "f">>, "approved", "medium", <<"0", "x", "D", "E", "F">>, TRUE),
   LogDecisionParams(<<>>, "approved", "low", <<"0", "x", "A", "b", "C">>, FALSE),
   LogDecisionParams(<<"p", "e", "n", "d", "i", "n", "g", "_", "1">>, "rejected", "medium", <<>>, FALSE),
   LogDecisionParams(<<"p", "e", "n", "d", "i", "n", "g", "_", "1">>, "maybe", "low", <<"0", "x", "A", "b", "C">>, FALSE),
   LogDecisionParams(<<"0", "x", "b", "e", "e", "f">>, "approved", "critical", <<"0", "x", "D", "E", "F">>, TRUE)}

Clock == 1..MaxNow

NextLogger ==
  \/ \E k \in LogCallIds, p \in LogParamsSamples, t0, t1, t2 \in Clock :
       LoggerLogDecision(k, p, t0, t1, t2)
  \/ \E k \in LogCallIds, o \in {"sent", "network", "other"}, t1, t2 \in Clock :
       SubmitDone(k, o, t1, t2)
  \/ \E k \in LogCallIds, o \in {"confirmed", "network", "other"}, t1, t2 \in Clock :
       WaitDone(k, o, t1, t2)
  \/ \E k \in LogCallIds, s \in BOOLEAN, t1, t2 \in Clock : SwitchDone(k, s, t1, t2)
  \/ \E m \in BOOLEAN : initialize(m)
  \/ LoggerNextBlock

InitLogger ==
  /\ InterceptorIdle /\ risk = RiskIdle /\ parse = ParseIdle
  /\ OthersIdle

SpecLogger == InitLogger /\ [][NextLogger]_vars

(***************************************************************************)
(* Properties of the decision logger client                                *)
(***************************************************************************)
RecordFields ==
  {"transactionHash", "userChoice", "riskLevel", "timestamp", "addressHash", "isDemo"}

\* the salted digest of the lower-cased address
AddressDigest(userAddress) == keccak256(toLowerCase(userAddress) \o salt)

Last(seq) == seq[Len(seq)]

\* call k pushed a local record, or its transaction was mined, in this step
StoresLocally(k) == logger'.calls[k].appended > logger.calls[k].appended
SubmitsToLedger(k) == logger.calls[k].pc = "wait" /\ logger'.calls[k].pc # "wait"

StartedCalls == {k \in LogCallIds : logger.calls[k].pc # "idle"}

\* C22: every decision record the logger stores locally or submits to the
\* ledger carries only the salted hash of the user address, never the raw
\* address, and the hash is a deterministic function of the lower-cased
\* address: addresses that differ only in letter case give the same hash.
C22_OnlyAddressHash ==
  /\ [](\A j, k \in StartedCalls :
          toLowerCase(logger.calls[j].params.userAddress)
            = toLowerCase(logger.calls[k].params.userAddress)
          => createUserAddressHash(logger.calls[j].params.userAddress)
               = createUserAddressHash(logger.calls[k].params.userAddress))
  /\ [][\A k \in LogCallIds :
          /\ StoresLocally(k) =>
               /\ DOMAIN Last(logger'.localDecisions) = RecordFields
               /\ Last(logger'.localDecisions).addressHash
                    = AddressDigest(logger'.calls[k].params.userAddress)
               /\ logger'.stored = logger'.localDecisions
          /\ SubmitsToLedger(k) =>
               /\ DOMAIN chain'.lastCall.args
                    = {"transactionHash", "userAddressHash", "approved", "riskLevel", "isDemo"}
               /\ chain'.lastCall.args.userAddressHash
                    = AddressDigest(logger'.calls[k].params.userAddress)]_vars

\* two decisions of one account written in two letter cases are stored
\* locally under one hash and the ledger holds a record with that hash
C22_Witness ==
  /\ logger.calls[1].params.userAddress # logger.calls[2].params.userAddress
  /\ toLowerCase(logger.calls[1].params.userAddress)
       = toLowerCase(logger.calls[2].params.userAddress)
  /\ logger.calls[1].pc = "done" /\ logger.calls[2].pc = "done"
  /\ Len(logger.localDecisions) >= 2
  /\ logger.localDecisions[1].addressHash = Last(logger.localDecisions).addressHash
  /\ \E id \in DOMAIN ledger.decisions :
       ledger.decisions[id].userAddressHash = logger.localDecisions[1].addressHash

\* the calls with valid inputs that have pushed their local record
ValidStarted == {k \in StartedCalls : ValidParams(logger.calls[k].params)}

\* C23: every DecisionLogger.logDecision call with valid inputs appends
\* exactly one record to the local decision list, whether the on-chain logging
\* succeeds, fails or is unavailable, so the local totals count each decision
\* once.
C23_OneLocalRecord ==
  /\ \A k \in ValidStarted : logger.calls[k].appended = 1
  /\ StartedCalls = ValidStarted =>
       /\ getLocalStats(logger.localDecisions).totalDecisions = Cardinality(ValidStarted)
       /\ getLocalStats(logger.localDecisions).totalApprovals =
            Cardinality({k \in ValidStarted : logger.calls[k].params.userChoice = "approved"})
       /\ getLocalStats(logger.localDecisions).totalRejections =
            Cardinality({k \in ValidStarted : logger.calls[k].params.userChoice = "rejected"})

\* C27: a single DecisionLogger.logDecision call leads to at most one decision
\* record on the ledger: the contract call is resubmitted only once, only
\* after a network-class error and a successful network switch, and never
\* after a first submission that the ledger may already have accepted.
C27_AtMostOneLedgerRecord ==
  \A k \in LogCallIds :
    /\ logger.calls[k].submissions <= 2
    /\ logger.calls[k].accepted <= 1

\* call k is made in this step with parameters a validation rejects
RejectedByValidation(k) ==
  /\ logger.calls[k].pc = "idle"
  /\ logger'.calls[k].pc # "idle"
  /\ ~ValidParams(logger'.calls[k].params)

\* C28: a DecisionLogger.logDecision call rejected by input validation (missing
\* transaction hash or user address, userChoice outside {approved, rejected},
\* riskLevel outside {low, medium, high}) throws and leaves the local decision
\* list and its persisted copy unchanged.
C28_RejectedLeavesLocalUnchanged ==
  [][\A k \in LogCallIds :
       RejectedByValidation(k) =>
         /\ logger'.calls[k].pc = "done" /\ logger'.calls[k].result = "threw"
         /\ logger'.localDecisions = logger.localDecisions
         /\ logger'.stored = logger.stored]_vars

====
